---- MODULE Spec2Model ----
(***************************************************************************)
(* BurnCloud-Chat: the client-side streaming pipeline (streamChat,         *)
(* handleSend, retryLast, handleStop in src/app/page.tsx) and the          *)
(* conversation store (useChatStore in src/lib/store/chat-store.ts).       *)
(*                                                                         *)
(* JavaScript strings are sequences of UTF-16 code units; network chunks   *)
(* are sequences of bytes.                                                 *)
(***************************************************************************)
EXTENDS Integers, Sequences, FiniteSets, TLC

\* ------------------------------------------------------------------------
\* Bounds of the model
\* ------------------------------------------------------------------------
\* number of handleSend / retryLast invocations in one run
MaxPipes == 2
\* number of conversations ever created (including the cold-start one)
MaxConvs == 2
\* largest network chunk, in bytes, the transport hands to reader.read()
MaxChunk == 3
\* number of pending files of one send
MaxFiles == 2
\* messages added in the runs of the store alone
MaxMsgs == 2
\* conversations ever created in the runs of the store alone
MaxStored == 3
\* storage writes that throw in one run
MaxFailedWrites == 1

\* ------------------------------------------------------------------------
\* Text
\* ------------------------------------------------------------------------
NL == 10
\* "data: "
DataPrefix == <<100, 97, 116, 97, 58, 32>>
\* "[DONE]"
DoneSentinel == <<91, 68, 79, 78, 69, 93>>
\* "\n\n"
Delimiter == <<NL, NL>>
\* createConversation("新的聊天")
DefaultTitle == <<26032, 30340, 32842, 22825>>
\* message.content.slice(0, 30)
TitleLen == 30

Min(a, b) == IF a < b THEN a ELSE b

\* String.prototype.slice(0, n)
Slice(s, n) == SubSeq(s, 1, Min(n, Len(s)))

\* s.startsWith(p)
StartsWith(s, p) == Len(s) >= Len(p) /\ SubSeq(s, 1, Len(p)) = p

\* String.prototype.indexOf(sep) + 1 from position i on: the first index at
\* which sep occurs in s, 0 when it does not occur
IndexFrom(s, sep, i) ==
    LET hits == {k \in i..(Len(s) - Len(sep) + 1) : SubSeq(s, k, k + Len(sep) - 1) = sep}
    IN  IF hits = {} THEN 0 ELSE CHOOSE k \in hits : \A j \in hits : k <= j

\* String.prototype.split(sep) for a non-empty string separator
RECURSIVE Split(_, _)
Split(s, sep) ==
    LET i == IndexFrom(s, sep, 1)
    IN  IF i = 0 THEN <<s>>
        ELSE <<SubSeq(s, 1, i - 1)>> \o Split(SubSeq(s, i + Len(sep), Len(s)), sep)

\* Array.prototype.join(sep)
RECURSIVE Join(_, _)
Join(parts, sep) ==
    IF Len(parts) = 0 THEN <<>>
    ELSE IF Len(parts) = 1 THEN parts[1]
    ELSE parts[1] \o sep \o Join(Tail(parts), sep)

\* l.replace(/^data: /, "")
StripData(l) ==
    IF StartsWith(l, DataPrefix) THEN SubSeq(l, Len(DataPrefix) + 1, Len(l)) ELSE l

\* part.split("\n").map((l) => l.replace(/^data: /, "")).join("\n")
PartLine(part) ==
    LET ls == Split(part, <<NL>>)
    IN  Join([k \in 1..Len(ls) |-> StripData(ls[k])], <<NL>>)

\* white space removed by String.prototype.trim (the characters the inputs use)
IsSpace(c) == c \in {9, 10, 13, 32}

RECURSIVE TrimStart(_)
TrimStart(s) ==
    IF Len(s) > 0 /\ IsSpace(s[1]) THEN TrimStart(Tail(s)) ELSE s

RECURSIVE TrimEnd(_)
TrimEnd(s) ==
    IF Len(s) > 0 /\ IsSpace(s[Len(s)]) THEN TrimEnd(SubSeq(s, 1, Len(s) - 1)) ELSE s

\* String.prototype.trim
Trim(s) == TrimEnd(TrimStart(s))

\* ------------------------------------------------------------------------
\* TextDecoder (UTF-8, streaming mode)
\* ------------------------------------------------------------------------
\* the decoder's carried state between decode(value, {stream: true}) calls
DecoderInit == [cp |-> 0, need |-> 0, seen |-> 0, lower |-> 128, upper |-> 191, bom |-> FALSE]

\* UTF-16 code units of one code point
CodeUnits(cp) ==
    IF cp < 65536 THEN <<cp>>
    ELSE <<55296 + ((cp - 65536) \div 1024), 56320 + ((cp - 65536) % 1024)>>

\* the decoder drops one leading U+FEFF (ignoreBOM is false)
Emit(d, cp) ==
    IF ~d.bom /\ cp = 65279 THEN <<>> ELSE CodeUnits(cp)

Reset(d) == [d EXCEPT !.cp = 0, !.need = 0, !.seen = 0, !.lower = 128, !.upper = 191]

\* one byte through the UTF-8 decoder: <<new state, code units emitted>>
RECURSIVE DecodeByte(_, _)
DecodeByte(d, b) ==
    IF d.need = 0 THEN
        IF b <= 127 THEN <<[d EXCEPT !.bom = TRUE], Emit(d, b)>>
        ELSE IF b >= 194 /\ b <= 223 THEN
            <<[d EXCEPT !.need = 1, !.cp = b % 32], <<>> >>
        ELSE IF b >= 224 /\ b <= 239 THEN
            <<[d EXCEPT !.need = 2, !.cp = b % 16,
                        !.lower = IF b = 224 THEN 160 ELSE 128,
                        !.upper = IF b = 237 THEN 159 ELSE 191], <<>> >>
        ELSE IF b >= 240 /\ b <= 244 THEN
            <<[d EXCEPT !.need = 3, !.cp = b % 8,
                        !.lower = IF b = 240 THEN 144 ELSE 128,
                        !.upper = IF b = 244 THEN 143 ELSE 191], <<>> >>
        ELSE <<[d EXCEPT !.bom = TRUE], <<65533>> >>
    ELSE IF b < d.lower \/ b > d.upper THEN
        \* invalid continuation: U+FFFD, and the byte is decoded again
        LET r == DecodeByte([Reset(d) EXCEPT !.bom = TRUE], b)
        IN  <<r[1], <<65533>> \o r[2]>>
    ELSE
        LET cp == d.cp * 64 + (b % 64)
        IN  IF d.seen + 1 = d.need
            THEN <<[Reset(d) EXCEPT !.bom = TRUE], Emit(d, cp)>>
            ELSE <<[d EXCEPT !.cp = cp, !.seen = d.seen + 1,
                             !.lower = 128, !.upper = 191], <<>> >>

\* decoder.decode(value, { stream: true }): <<new state, decoded string>>.
\* The bytes go through DecodeByte in order: the left half, then the right
\* half from the state the left half ended in (the halves keep the
\* evaluation shallow; the bound variable holds the left half's result).
RECURSIVE Decode(_, _)
Decode(d, bytes) ==
    IF Len(bytes) = 0 THEN <<d, <<>> >>
    ELSE IF Len(bytes) = 1 THEN DecodeByte(d, bytes[1])
    ELSE LET h == Len(bytes) \div 2
         IN  CHOOSE res \in
                 { LET right == Decode(left[1], SubSeq(bytes, h + 1, Len(bytes)))
                   IN  <<right[1], left[2] \o right[2]>> :
                   left \in {Decode(d, SubSeq(bytes, 1, h))} } : TRUE

\* ------------------------------------------------------------------------
\* streamChat: the body of one iteration of the read loop
\* ------------------------------------------------------------------------
\* a loop that skips the [DONE] line and carries on with the parts after it
RECURSIVE ProcessPartsNoStop(_)
ProcessPartsNoStop(parts) ==
    IF Len(parts) = 0 THEN [deltas |-> <<>>, done |-> FALSE]
    ELSE LET line == PartLine(parts[1])
             rest == ProcessPartsNoStop(Tail(parts))
         IN  [deltas |-> (IF line # <<>> /\ line # DoneSentinel THEN <<line>> ELSE <<>>)
                           \o rest.deltas,
              done |-> rest.done]

\* for (const part of parts): the lines handed to onDelta, in order, and
\* whether the loop returned on the [DONE] sentinel
RECURSIVE ProcessParts(_)
ProcessParts(parts) ==
    IF Len(parts) = 0 THEN [deltas |-> <<>>, done |-> FALSE]
    ELSE LET line == PartLine(parts[1])
         IN  IF line = DoneSentinel THEN [deltas |-> <<>>, done |-> TRUE]
             ELSE LET rest == ProcessParts(Tail(parts))
                  IN  [deltas |-> (IF line # <<>> THEN <<line>> ELSE <<>>) \o rest.deltas,
                       done |-> rest.done]

\* an iteration that splits the decoded chunk alone, without the carried buffer
ProcessChunkNoCarry(decoder, buffer, value) ==
    LET dec   == Decode(decoder, value)
        parts == Split(dec[2], Delimiter)
        loop  == ProcessParts(SubSeq(parts, 1, Len(parts) - 1))
    IN  [decoder |-> dec[1], buffer |-> parts[Len(parts)],
         deltas |-> loop.deltas, done |-> loop.done]

\* buffer += decoder.decode(value, {stream: true}); parts = buffer.split("\n\n");
\* buffer = parts.pop() ?? ""; then the loop over parts
ProcessChunk(decoder, buffer, value) ==
    LET dec   == Decode(decoder, value)
        buf   == buffer \o dec[2]
        parts == Split(buf, Delimiter)
        loop  == ProcessParts(SubSeq(parts, 1, Len(parts) - 1))
    IN  [decoder |-> dec[1], buffer |-> parts[Len(parts)],
         deltas |-> loop.deltas, done |-> loop.done]

\* ------------------------------------------------------------------------
\* Conversation store (useChatStore)
\* ------------------------------------------------------------------------
\* the empty string used as "no conversation"
NoId == 0

\* createConversation(title): systemPrompt ""; the createdAt and updatedAt
\* timestamps are not part of the model
createConversation(id, title) ==
    [id |-> id, title |-> title, systemPrompt |-> <<>>, stats |-> <<>>]

ConvIds(st) == {st.conversations[k].id : k \in 1..Len(st.conversations)}

\* Array.prototype.filter on the conversation list
RECURSIVE FilterOut(_, _)
FilterOut(convs, id) ==
    IF Len(convs) = 0 THEN <<>>
    ELSE IF convs[1].id = id THEN FilterOut(Tail(convs), id)
    ELSE <<convs[1]>> \o FilterOut(Tail(convs), id)

\* prev.messages[id]?.length ?? 0
MsgCount(st, id) == IF id \in DOMAIN st.messages THEN Len(st.messages[id]) ELSE 0

\* prev.messages[id] ?? []
MsgList(st, id) == IF id \in DOMAIN st.messages THEN st.messages[id] ELSE <<>>

\* index of the first conversation satisfying the find() predicate, 0 if none
RECURSIVE FindEmpty(_, _)
FindEmpty(st, k) ==
    IF k > Len(st.conversations) THEN 0
    ELSE IF MsgCount(st, st.conversations[k].id) = 0 THEN k
    ELSE FindEmpty(st, k + 1)

RECURSIVE FindConv(_, _, _)
FindConv(convs, id, k) ==
    IF k > Len(convs) THEN 0
    ELSE IF convs[k].id = id THEN k
    ELSE FindConv(convs, id, k + 1)

\* { ...m, [id]: list }
PutList(msgs, id, list) ==
    [k \in DOMAIN msgs \cup {id} |-> IF k = id THEN list ELSE msgs[k]]

\* conversations[0]?.id ?? ""
FirstId(convs) == IF Len(convs) > 0 THEN convs[1].id ELSE NoId

\* a creation that never looks for an empty conversation
addConversationAlways(st, title, newId) ==
    [conversations |-> <<createConversation(newId, title)>> \o st.conversations,
     messages |-> PutList(st.messages, newId, <<>>),
     currentId |-> newId]

\* addConversation(title): newId is generateId()
addConversation(st, title, newId) ==
    LET k == FindEmpty(st, 1)
    IN  IF k # 0
        THEN LET e == st.conversations[k]
             IN  [conversations |-> <<e>>
                                      \o FilterOut(st.conversations, e.id),
                  messages |-> st.messages,
                  currentId |-> e.id]
        ELSE [conversations |-> <<createConversation(newId, title)>> \o st.conversations,
              \* { [conv.id]: [], ...prev.messages }: an entry of prev wins
              messages |-> PutList(st.messages, newId, MsgList(st, newId)),
              currentId |-> newId]

renameConversation(st, id, title) ==
    [st EXCEPT !.conversations =
        [k \in 1..Len(st.conversations) |->
            IF st.conversations[k].id = id
            THEN [st.conversations[k] EXCEPT !.title = title]
            ELSE st.conversations[k]]]

\* a delete that drops the conversation and leaves its message list
deleteConversationKeepMessages(st, id) ==
    LET convs == FilterOut(st.conversations, id)
    IN  [conversations |-> convs,
         messages |-> st.messages,
         currentId |-> FirstId(convs)]

deleteConversation(st, id) ==
    LET convs == FilterOut(st.conversations, id)
    IN  [conversations |-> convs,
         messages |-> [k \in DOMAIN st.messages \ {id} |-> st.messages[k]],
         currentId |-> FirstId(convs)]

\* an append that titles the conversation after every user message
addMessageEveryUser(st, message) ==
    LET list == MsgList(st, message.conversationId)
        nextTitle == IF message.role = "user"
                     THEN Slice(message.content, TitleLen) ELSE <<>>
    IN  [st EXCEPT
           !.conversations =
              [k \in 1..Len(st.conversations) |->
                  IF st.conversations[k].id = message.conversationId
                  THEN [st.conversations[k] EXCEPT
                           !.title = IF nextTitle # <<>> THEN nextTitle ELSE @]
                  ELSE st.conversations[k]],
           !.messages = PutList(st.messages, message.conversationId, Append(list, message))]

\* an insertion at the head of the list
addMessagePrepend(st, message) ==
    [st EXCEPT !.messages =
        PutList(st.messages, message.conversationId,
                <<message>> \o MsgList(st, message.conversationId))]

addMessage(st, message) ==
    LET list == MsgList(st, message.conversationId)
        isFirstUserMessage == Len(list) = 0 /\ message.role = "user"
        \* nextTitle is undefined or the sliced content; both "" and undefined are falsy
        nextTitle == IF isFirstUserMessage THEN Slice(message.content, TitleLen) ELSE <<>>
    IN  [st EXCEPT
           !.conversations =
              [k \in 1..Len(st.conversations) |->
                  IF st.conversations[k].id = message.conversationId
                  THEN [st.conversations[k] EXCEPT
                           !.title = IF nextTitle # <<>> THEN nextTitle ELSE @]
                  ELSE st.conversations[k]],
           !.messages = PutList(st.messages, message.conversationId, Append(list, message))]

\* the two kinds of patch updateMessage accepts
PatchAppend(delta) == [kind |-> "append", delta |-> delta]
PatchStatus(status) == [kind |-> "status", status |-> status]

\* mapper(m): (prev) => ({...prev, content: prev.content + delta}) or {...m, ...patch}
ApplyPatch(m, patch) ==
    IF patch.kind = "append" THEN [m EXCEPT !.content = @ \o patch.delta]
    ELSE [m EXCEPT !.status = patch.status]

\* an update that maps the patch over every message of the list
updateMessageAll(st, conversationId, messageId, patch) ==
    LET list == MsgList(st, conversationId)
    IN  [st EXCEPT !.messages =
            PutList(st.messages, conversationId,
                [k \in 1..Len(list) |-> ApplyPatch(list[k], patch)])]

updateMessage(st, conversationId, messageId, patch) ==
    LET list == MsgList(st, conversationId)
    IN  [st EXCEPT !.messages =
            PutList(st.messages, conversationId,
                [k \in 1..Len(list) |->
                    IF list[k].id = messageId THEN ApplyPatch(list[k], patch) ELSE list[k]])]

\* stats is undefined (<<>>) or the merged record (<<stats>>); every caller
\* supplies all three fields, so the merge is the new record
updateStats(st, id, stats) ==
    [st EXCEPT !.conversations =
        [k \in 1..Len(st.conversations) |->
            IF st.conversations[k].id = id
            THEN [st.conversations[k] EXCEPT !.stats = <<stats>>]
            ELSE st.conversations[k]]]

\* a selection that does not look the conversation up
setCurrentUnchecked(st, id) ==
    [st EXCEPT !.currentId = id]

\* a selection that exchanges the conversation with the first one
setCurrentSwap(st, id) ==
    LET k == FindConv(st.conversations, id, 1)
    IN  IF k = 0 THEN st
        ELSE [conversations |->
                 [j \in 1..Len(st.conversations) |->
                     IF j = 1 THEN st.conversations[k]
                     ELSE IF j = k THEN st.conversations[1]
                     ELSE st.conversations[j]],
              messages |-> st.messages,
              currentId |-> id]

setCurrent(st, id) ==
    LET k == FindConv(st.conversations, id, 1)
    IN  IF k = 0 THEN st
        ELSE [conversations |-> <<st.conversations[k]>> \o FilterOut(st.conversations, id),
              messages |-> st.messages,
              currentId |-> id]

updateSystemPrompt(st, id, prompt) ==
    [st EXCEPT !.conversations =
        [k \in 1..Len(st.conversations) |->
            IF st.conversations[k].id = id
            THEN [st.conversations[k] EXCEPT !.systemPrompt = prompt]
            ELSE st.conversations[k]]]

\* const currentConversationId = currentId || state.conversations[0]?.id || ""
currentConversationId(st) ==
    IF st.currentId # NoId THEN st.currentId ELSE FirstId(st.conversations)

\* ------------------------------------------------------------------------
\* Persistence of the store (localStorage)
\* ------------------------------------------------------------------------
\* localStorage as the store uses it: the slot of STORAGE_KEY and the slot of
\* CURRENT_KEY, each <<>> when getItem gives null. stale records that the
\* last setItem on the state slot threw, failures counts the writes that threw.
NoStorage == [state |-> <<>>, current |-> <<>>, stale |-> FALSE, failures |-> 0]

\* const emptyState = { conversations: [], messages: {} }
emptyState == [conversations |-> <<>>, messages |-> <<>>]

\* the own properties of an object, as JSON text lists them
Entries(obj) == {<<k, obj[k]>> : k \in DOMAIN obj}

\* the object a list of properties denotes
FromEntries(es) == [k \in {e[1] : e \in es} |-> (CHOOSE e \in es : e[1] = k)[2]]

\* JSON.stringify(state): the text of an object with the two properties
\* conversations (an array) and messages (an object, one property per key)
Stringify(state) ==
    [kind |-> "json", conversations |-> <<state.conversations>>,
     messages |-> <<Entries(state.messages)>>]

\* the text "{}": an object without the two properties
EmptyObjectText == [kind |-> "json", conversations |-> <<>>, messages |-> <<>>]

\* a text JSON.parse throws on
UnparsableText == [kind |-> "garbage", conversations |-> <<>>, messages |-> <<>>]

\* JSON.parse(raw): threw, or the parsed object with absent properties as <<>>
JSONparse(raw) ==
    IF raw.kind # "json" THEN [threw |-> TRUE, conversations |-> <<>>, messages |-> <<>>]
    ELSE [threw |-> FALSE,
          conversations |-> raw.conversations,
          messages |-> IF raw.messages = <<>> THEN <<>>
                       ELSE <<FromEntries(raw.messages[1])>>]

loadState(sto) ==
    IF sto.state = <<>> THEN emptyState
    ELSE LET parsed == JSONparse(sto.state[1])
         IN  IF parsed.threw THEN emptyState
             ELSE [conversations |-> IF parsed.conversations = <<>> THEN <<>>
                                     ELSE parsed.conversations[1],
                   messages |-> IF parsed.messages = <<>> THEN <<>>
                                ELSE parsed.messages[1]]

\* a write whose exception is not caught: it leaves the effect
persistStateUncaught(sto, state, ok) ==
    IF ok THEN [storage |-> [sto EXCEPT !.state = <<Stringify(state)>>, !.stale = FALSE],
                threw |-> FALSE]
    ELSE [storage |-> [sto EXCEPT !.stale = TRUE, !.failures = @ + 1], threw |-> TRUE]

\* persistState(state); ok says whether setItem returned; threw says whether
\* an exception leaves the function
persistState(sto, state, ok) ==
    IF ok THEN [storage |-> [sto EXCEPT !.state = <<Stringify(state)>>, !.stale = FALSE],
                threw |-> FALSE]
    ELSE [storage |-> [sto EXCEPT !.stale = TRUE, !.failures = @ + 1], threw |-> FALSE]

\* a reader that trusts the saved id
loadCurrentIdTrusting(convs, sto) ==
    IF sto.current # <<>> THEN sto.current[1] ELSE FirstId(convs)

loadCurrentId(convs, sto) ==
    IF sto.current # <<>> /\ FindConv(convs, sto.current[1], 1) # 0
    THEN sto.current[1]
    ELSE FirstId(convs)

persistCurrentId(sto, id, ok) ==
    IF ok THEN [storage |-> [sto EXCEPT !.current = <<id>>], threw |-> FALSE]
    ELSE [storage |-> [sto EXCEPT !.failures = @ + 1], threw |-> FALSE]

NotWritten(sto) == [storage |-> sto, threw |-> FALSE]

\* the component after an exception left an effect: React unmounts it
Unmounted == [conversations |-> <<>>, messages |-> <<>>, currentId |-> NoId]

\* the two persist effects after a render in which the store went from prev
\* to next: persistState(state) when the state object is a new one,
\* persistCurrentId(currentId) when currentId changed and is not ""
PersistEffects(prev, next, newState, sto, okState, okCurrent) ==
    LET w1 == IF newState
              THEN persistState(sto, [conversations |-> next.conversations,
                                      messages |-> next.messages], okState)
              ELSE NotWritten(sto)
        w2 == IF next.currentId # prev.currentId /\ next.currentId # NoId
              THEN persistCurrentId(w1.storage, next.currentId, okCurrent)
              ELSE NotWritten(w1.storage)
    IN  [store |-> IF w1.threw \/ w2.threw THEN Unmounted ELSE next,
         storage |-> w2.storage]

\* the mount effect with what the persist effects do once loaded is true.
\* When a conversation is created the same state and id are written twice
\* (lines 95-96 and the effects): okState and okCurrent say whether the slot
\* got written.
ColdStart(sto, newId, okState, okCurrent) ==
    LET initial == loadState(sto)
        next == IF Len(initial.conversations) = 0
                THEN [conversations |-> <<createConversation(newId, DefaultTitle)>>,
                      messages |-> [k \in {newId} |-> <<>>],
                      currentId |-> newId]
                ELSE [conversations |-> initial.conversations,
                      messages |-> initial.messages,
                      currentId |-> loadCurrentId(initial.conversations, sto)]
    IN  PersistEffects(Unmounted, next, TRUE, sto, okState, okCurrent)

\* ------------------------------------------------------------------------
\* The page (Home): state
\* ------------------------------------------------------------------------
VARIABLES
    conversations,   \* state.conversations
    messages,        \* state.messages
    currentId,       \* the currentId state of useChatStore
    nextConvId,      \* generateId() for conversations
    nextMsgId,       \* crypto.randomUUID() for messages
    isSending,       \* useState(false)
    error,           \* useState<string | null>(null): <<>> is null
    toast,           \* useState<{type, message} | null>(null): <<>> is null
    controllerRef,   \* controllerRef.current: <<>> is null, <<p>> the controller of invocation p
    lastPayloadRef,  \* lastPayloadRef.current: <<>> is null
    nPipes,          \* number of handleSend / retryLast invocations so far
    pipes,           \* the invocations: captured closure values, position, stream state
    now,             \* Date.now(), in milliseconds
    authEnv,         \* process.env of the proxy: session secret, BASIC_AUTH_USERS
    cookies,         \* the browser's cookie jar: session cookie, logout marker
    proxyLast,       \* the last request to the proxy with its response
    tokenRun,        \* a session value: who minted it, the text presented, the verdict
    chatLast,        \* the last request to POST /api/chat with its response
    relay,           \* the relay of a chat response: upstream reader, downstream stream
    uploadLast,      \* the last request to POST /api/upload with its response
    storage          \* localStorage: the state slot and the current-id slot

storeVars == <<conversations, messages, currentId>>
pageVars == <<isSending, error, toast, controllerRef, lastPayloadRef>>
clientVars == <<conversations, messages, currentId, nextConvId, nextMsgId,
                isSending, error, toast, controllerRef, lastPayloadRef, nPipes, pipes,
                storage>>
serverVars == <<now, authEnv, cookies, proxyLast, tokenRun, chatLast, relay, uploadLast>>
vars == <<clientVars, serverVars>>

\* the store as one value, as the setState updaters see it
St == [conversations |-> conversations, messages |-> messages, currentId |-> currentId]

SetStore(st) ==
    /\ conversations' = st.conversations
    /\ messages' = st.messages
    /\ currentId' = st.currentId

Pipes == 1..MaxPipes

DEFAULT_MODEL == "gpt-4o"
DEFAULT_PROVIDER == "openai"
\* PROVIDER_OPTIONS has the single provider openai, with capabilities.vision
canUploadMedia == TRUE

\* an invocation that has not been made yet
IdlePipe ==
    [kind |-> "none", pc |-> "idle", conv |-> NoId, input |-> <<>>, prompt |-> <<>>,
     history |-> <<>>, files |-> 0, filesLeft |-> 0, uploaded |-> 0, aid |-> NoId,
     payload |-> <<>>, aborted |-> FALSE,
     decoder |-> DecoderInit, buffer |-> <<>>, wire |-> <<>>,
     stream |-> <<>>, delivered |-> <<>>, errors |-> 0, result |-> "none",
     cutChar |-> FALSE, cutDelimiter |-> FALSE]

\* the server side at rest: no request made, nothing configured or stored
ServerIdle ==
    /\ now = 0
    /\ authEnv = <<>>
    /\ cookies = [session |-> <<>>, logout |-> <<>>]
    /\ proxyLast = <<>>
    /\ tokenRun = <<>>
    /\ chatLast = <<>>
    /\ relay = <<>>
    /\ uploadLast = <<>>

\* cold start with nothing persisted: one empty conversation, made current
Init ==
    /\ conversations = <<createConversation(1, DefaultTitle)>>
    /\ messages = [k \in {1} |-> <<>>]
    /\ currentId = 1
    /\ nextConvId = 2
    /\ nextMsgId = 1
    /\ isSending = FALSE
    /\ error = <<>>
    /\ toast = <<>>
    /\ controllerRef = <<>>
    /\ lastPayloadRef = <<>>
    /\ nPipes = 0
    /\ pipes = [p \in Pipes |-> IdlePipe]
    /\ storage = ColdStart(NoStorage, 1, TRUE, TRUE).storage
    /\ ServerIdle

\* ------------------------------------------------------------------------
\* The page: send pipeline
\* ------------------------------------------------------------------------
\* currentMessages.map((m) => ({ role: m.role, content: m.content }))
History(st) ==
    LET list == MsgList(st, currentConversationId(st))
    IN  [k \in 1..Len(list) |-> [role |-> list[k].role, content |-> list[k].content]]

\* a delta callback that reads the current conversation when it is called
RECURSIVE ApplyDeltasCurrent(_, _, _, _)
ApplyDeltasCurrent(st, conv, aid, deltas) ==
    IF Len(deltas) = 0 THEN st
    ELSE ApplyDeltasCurrent(updateMessage(st, currentConversationId(st), aid,
                                          PatchAppend(deltas[1])),
                            conv, aid, Tail(deltas))

\* the (delta) => actions.updateMessage(...) callback, once per delivered line
RECURSIVE ApplyDeltas(_, _, _, _)
ApplyDeltas(st, conv, aid, deltas) ==
    IF Len(deltas) = 0 THEN st
    ELSE ApplyDeltas(updateMessage(st, conv, aid, PatchAppend(deltas[1])),
                     conv, aid, Tail(deltas))

\* handleSend from the payload construction to the fetch inside streamChat
\* (page.tsx 968-1011), on the values captured when handleSend was called
SendBuild(p, pr) ==
    LET payload == [messages |->
                       (IF pr.prompt # <<>>
                        THEN <<[role |-> "system", content |-> pr.prompt]>> ELSE <<>>)
                       \o pr.history
                       \o <<[role |-> "user", content |-> pr.input]>>,
                    model |-> DEFAULT_MODEL, provider |-> DEFAULT_PROVIDER,
                    stream |-> TRUE, attachments |-> pr.uploaded]
        userMessage == [id |-> nextMsgId, conversationId |-> pr.conv, role |-> "user",
                        content |-> pr.input, status |-> "done",
                        attachments |-> pr.uploaded]
        assistantMessage == [id |-> nextMsgId + 1, conversationId |-> pr.conv,
                             role |-> "assistant", content |-> <<>>,
                             status |-> "streaming", attachments |-> 0]
        st1 == updateSystemPrompt(St, pr.conv, pr.prompt)
        st2 == addMessage(st1, userMessage)
        st3 == addMessage(st2, assistantMessage)
    IN  /\ lastPayloadRef' = <<payload>>
        /\ SetStore(st3)
        /\ nextMsgId' = nextMsgId + 2
        /\ isSending' = TRUE
        /\ controllerRef' = <<p>>
        /\ pipes' = [pipes EXCEPT ![p] =
                        [pr EXCEPT !.pc = "fetch", !.aid = nextMsgId + 1,
                                   !.payload = <<payload>>]]

\* handleSend up to its first suspension: the guard, setError(null), and
\* either the first upload request or, with no pending file, the whole
\* synchronous part up to the fetch
HandleSend(input, nfiles, prompt) ==
    LET p  == nPipes + 1
        pr == [IdlePipe EXCEPT !.kind = "send", !.conv = currentConversationId(St),
                               !.input = Trim(input), !.prompt = prompt,
                               !.history = History(St), !.files = nfiles,
                               !.filesLeft = nfiles]
    IN  /\ nPipes < MaxPipes
        /\ ~ ( (Trim(input) = <<>> /\ nfiles = 0)
               \/ currentConversationId(St) = NoId
               \/ isSending )
        /\ ~ (nfiles # 0 /\ ~canUploadMedia)
        /\ nPipes' = p
        /\ UNCHANGED <<serverVars, storage>>
        /\ error' = <<>>
        /\ IF nfiles = 0
           THEN /\ SendBuild(p, pr)
                /\ UNCHANGED <<toast, nextConvId>>
           ELSE /\ pipes' = [pipes EXCEPT ![p] = [pr EXCEPT !.pc = "upload"]]
                /\ UNCHANGED <<storeVars, nextConvId, nextMsgId, isSending, toast,
                               controllerRef, lastPayloadRef>>

\* uploadPendingFiles: one upload answered with success; the next file is
\* requested, or the list is returned and handleSend continues
UploadOk(p) ==
    LET pr == [pipes[p] EXCEPT !.filesLeft = @ - 1, !.uploaded = @ + 1]
    IN  /\ pipes[p].pc = "upload"
        /\ IF pr.filesLeft > 0
           THEN /\ pipes' = [pipes EXCEPT ![p] = pr]
                /\ UNCHANGED <<storeVars, nextMsgId, pageVars>>
           ELSE /\ SendBuild(p, pr)
                /\ UNCHANGED <<error, toast>>
        /\ UNCHANGED <<nextConvId, nPipes, serverVars, storage>>

\* a failed upload is reported and the loop goes on to the next file
UploadFailSkips(p) ==
    LET pr == [pipes[p] EXCEPT !.filesLeft = @ - 1]
    IN  /\ pipes[p].pc = "upload"
        /\ error' = <<"upload failed">>
        /\ toast' = <<[type |-> "error", message |-> "upload failed"]>>
        /\ IF pr.filesLeft > 0
           THEN /\ pipes' = [pipes EXCEPT ![p] = pr]
                /\ UNCHANGED <<storeVars, nextMsgId, isSending, controllerRef,
                               lastPayloadRef>>
           ELSE SendBuild(p, pr)
        /\ UNCHANGED <<nextConvId, nPipes, serverVars, storage>>

\* uploadPendingFiles: a non-success response or a network error; returns
\* null and handleSend gives up
UploadFail(p) ==
    /\ pipes[p].pc = "upload"
    /\ error' = <<"upload failed">>
    /\ toast' = <<[type |-> "error", message |-> "upload failed"]>>
    /\ isSending' = FALSE
    /\ pipes' = [pipes EXCEPT ![p] = [IdlePipe EXCEPT !.kind = "send", !.pc = "finished",
                                                 !.conv = pipes[p].conv, !.result = "null",
                                                 !.files = pipes[p].files,
                                                 !.uploaded = pipes[p].uploaded]]
    /\ UNCHANGED <<storeVars, nextConvId, nextMsgId, controllerRef,
                   lastPayloadRef, nPipes, serverVars, storage>>

\* the (msg) => {...} error callback of handleSend / retryLast
OnError(st, pr, msg) ==
    [st |-> updateMessage(st, pr.conv, pr.aid, PatchStatus("error")),
     error |-> <<msg>>,
     toast |-> <<[type |-> "error", message |-> msg]>>]

\* an invocation that has returned: its closure and its stream are gone; what
\* it did is kept for the record
Finished(pr, result) ==
    [IdlePipe EXCEPT !.kind = pr.kind, !.pc = "finished", !.conv = pr.conv,
                     !.aid = pr.aid, !.aborted = pr.aborted, !.stream = pr.stream,
                     !.wire = pr.wire, !.delivered = pr.delivered,
                     !.errors = pr.errors, !.result = result,
                     !.cutChar = pr.cutChar, !.cutDelimiter = pr.cutDelimiter]

\* a continuation that returns at once when streamChat gave null
FinishOnResult(p, pr, st, err, tst, result) ==
    LET st1 == updateMessage(st, pr.conv, pr.aid, PatchStatus("done"))
        st2 == updateStats(st1, pr.conv,
                           [lastStatus |-> 200, lastProvider |-> DEFAULT_PROVIDER])
    IN  /\ SetStore(IF result = "ok" THEN st2 ELSE st)
        /\ error' = err
        /\ toast' = IF result = "ok"
                    THEN <<[type |-> "info", message |-> "finished"]>>
                    ELSE tst
        /\ isSending' = IF result = "ok" THEN FALSE ELSE isSending
        /\ controllerRef' = IF result = "ok" THEN <<>> ELSE controllerRef
        /\ pipes' = [pipes EXCEPT ![p] = Finished(pr, result)]

\* handleSend / retryLast after `await streamChat(...)` (page.tsx 1029-1045,
\* 1083-1098): st, err and tst are the store, error and toast left by the
\* callbacks; result is "ok" ({status, durationMs}) or "null"
Finish(p, pr, st, err, tst, result) ==
    LET st1 == updateMessage(st, pr.conv, pr.aid, PatchStatus("done"))
        st2 == IF result = "ok"
               THEN updateStats(st1, pr.conv,
                                [lastStatus |-> 200, lastProvider |-> DEFAULT_PROVIDER])
               ELSE st1
    IN  /\ SetStore(st2)
        /\ error' = err
        /\ toast' = IF result = "ok"
                    THEN <<[type |-> "info", message |-> "finished"]>>
                    ELSE tst
        /\ isSending' = FALSE
        /\ controllerRef' = <<>>
        /\ pipes' = [pipes EXCEPT ![p] = Finished(pr, result)]

\* the requests of streamChat this invocation is suspended on
AtNetwork(p) == pipes[p].pc \in {"fetch", "errtext", "read"}

\* fetch("/api/chat") answered with a success status and a body
FetchOk(p, stream, wire) ==
    /\ pipes[p].pc = "fetch"
    /\ ~pipes[p].aborted
    /\ pipes' = [pipes EXCEPT ![p].pc = "read", ![p].stream = stream, ![p].wire = wire]
    /\ UNCHANGED <<storeVars, nextConvId, nextMsgId, pageVars, nPipes, serverVars, storage>>

\* fetch answered with !res.ok (or no body): streamChat awaits res.text()
FetchNotOk(p) ==
    /\ pipes[p].pc = "fetch"
    /\ ~pipes[p].aborted
    /\ pipes' = [pipes EXCEPT ![p].pc = "errtext"]
    /\ UNCHANGED <<storeVars, nextConvId, nextMsgId, pageVars, nPipes, serverVars, storage>>

\* res.text() resolved: onError(text || "请求失败"); return null
ErrorText(p, text) ==
    LET pr == [pipes[p] EXCEPT !.errors = @ + 1]
        e  == OnError(St, pr, IF text # "" THEN text ELSE "request failed")
    IN  /\ pipes[p].pc = "errtext"
        /\ ~pipes[p].aborted
        /\ Finish(p, pr, e.st, e.error, e.toast, "null")
        /\ UNCHANGED <<nextConvId, nextMsgId, lastPayloadRef, nPipes, serverVars, storage>>

\* fetch, res.text() or reader.read() rejected with an error other than
\* AbortError: onError(error.message); return null
NetworkFail(p) ==
    LET pr == [pipes[p] EXCEPT !.errors = @ + 1]
        e  == OnError(St, pr, "network error")
    IN  /\ AtNetwork(p)
        /\ ~pipes[p].aborted
        /\ Finish(p, pr, e.st, e.error, e.toast, "null")
        /\ UNCHANGED <<nextConvId, nextMsgId, lastPayloadRef, nPipes, serverVars, storage>>

\* a catch block that reports the AbortError like any other error
AbortResumeReported(p) ==
    LET pr == [pipes[p] EXCEPT !.errors = @ + 1]
        e  == OnError(St, pr, "aborted")
    IN  /\ AtNetwork(p)
        /\ pipes[p].aborted
        /\ Finish(p, pr, e.st, e.error, e.toast, "null")
        /\ UNCHANGED <<nextConvId, nextMsgId, lastPayloadRef, nPipes, serverVars, storage>>

\* the pending request of an aborted controller rejects with AbortError:
\* the catch block skips onError; return null
AbortResume(p) ==
    /\ AtNetwork(p)
    /\ pipes[p].aborted
    /\ Finish(p, pipes[p], St, error, toast, "null")
    /\ UNCHANGED <<nextConvId, nextMsgId, lastPayloadRef, nPipes, serverVars, storage>>

\* reader.read() resolved with the next n bytes of the body: one iteration
\* of the while loop, ending in the next read() or in the [DONE] return
ReadChunk(p, n) ==
    LET pr0 == pipes[p]
        r   == ProcessChunk(pr0.decoder, pr0.buffer, SubSeq(pr0.wire, 1, n))
        rest == SubSeq(pr0.wire, n + 1, Len(pr0.wire))
        pr  == [pr0 EXCEPT !.decoder = r.decoder, !.buffer = r.buffer,
                           !.wire = rest,
                           !.delivered = @ \o r.deltas,
                           \* for the record: the chunk ended inside a character,
                           \* or between the two newlines of a delimiter
                           !.cutChar = @ \/ r.decoder.need > 0,
                           !.cutDelimiter = @ \/ ( /\ r.buffer # <<>>
                                                   /\ r.buffer[Len(r.buffer)] = NL
                                                   /\ rest # <<>> /\ rest[1] = NL )]
        applied == ApplyDeltas(St, pr.conv, pr.aid, r.deltas)
    IN  /\ pr0.pc = "read"
        /\ ~pr0.aborted
        /\ n >= 1 /\ n <= Len(pr0.wire)
        /\ IF r.done
           THEN Finish(p, pr, applied, error, toast, "ok")
           ELSE /\ SetStore(applied)
                /\ pipes' = [pipes EXCEPT ![p] = pr]
                /\ UNCHANGED pageVars
        /\ UNCHANGED <<nextConvId, nextMsgId, lastPayloadRef, nPipes, serverVars, storage>>

\* reader.read() resolved with done: the loop breaks, streamChat returns
\* the status (the carried buffer and decoder state are dropped)
ReadEnd(p) ==
    /\ pipes[p].pc = "read"
    /\ ~pipes[p].aborted
    /\ pipes[p].wire = <<>>
    /\ Finish(p, pipes[p], St, error, toast, "ok")
    /\ UNCHANGED <<nextConvId, nextMsgId, lastPayloadRef, nPipes, serverVars, storage>>

\* a retry that rebuilds its payload from the store and forgets the retained one
RetryLastRebuilt ==
    LET p  == nPipes + 1
        cc == currentConversationId(St)
        pr == [IdlePipe EXCEPT !.kind = "retry", !.pc = "fetch", !.conv = cc,
                               !.aid = nextMsgId,
                               !.payload = <<[lastPayloadRef[1] EXCEPT
                                                !.messages = History(St)]>>]
    IN  /\ nPipes < MaxPipes
        /\ ~ (lastPayloadRef = <<>> \/ cc = NoId \/ isSending)
        /\ nPipes' = p
        /\ UNCHANGED <<serverVars, storage>>
        /\ error' = <<>>
        /\ toast' = <<>>
        /\ controllerRef' = <<p>>
        /\ isSending' = TRUE
        /\ SetStore(addMessage(St, [id |-> nextMsgId, conversationId |-> cc,
                                    role |-> "assistant", content |-> <<>>,
                                    status |-> "streaming", attachments |-> 0]))
        /\ nextMsgId' = nextMsgId + 1
        /\ pipes' = [pipes EXCEPT ![p] = pr]
        /\ UNCHANGED <<nextConvId, lastPayloadRef>>

\* retryLast up to the fetch inside streamChat
RetryLast ==
    LET p  == nPipes + 1
        cc == currentConversationId(St)
        pr == [IdlePipe EXCEPT !.kind = "retry", !.pc = "fetch", !.conv = cc,
                               !.aid = nextMsgId, !.payload = lastPayloadRef]
    IN  /\ nPipes < MaxPipes
        /\ ~ (lastPayloadRef = <<>> \/ cc = NoId \/ isSending)
        /\ nPipes' = p
        /\ UNCHANGED <<serverVars, storage>>
        /\ error' = <<>>
        /\ toast' = <<>>
        /\ controllerRef' = <<p>>
        /\ isSending' = TRUE
        /\ SetStore(addMessage(St, [id |-> nextMsgId, conversationId |-> cc,
                                    role |-> "assistant", content |-> <<>>,
                                    status |-> "streaming", attachments |-> 0]))
        /\ nextMsgId' = nextMsgId + 1
        /\ pipes' = [pipes EXCEPT ![p] = pr]
        /\ UNCHANGED <<nextConvId, lastPayloadRef>>

\* handleStop: controllerRef.current?.abort(); controllerRef.current = null;
\* setIsSending(false)
HandleStop ==
    /\ pipes' = IF controllerRef # <<>>
                THEN [pipes EXCEPT ![controllerRef[1]].aborted = TRUE]
                ELSE pipes
    /\ controllerRef' = <<>>
    /\ isSending' = FALSE
    /\ UNCHANGED <<storeVars, nextConvId, nextMsgId, error, toast,
                   lastPayloadRef, nPipes, serverVars, storage>>

\* ------------------------------------------------------------------------
\* The page: the sidebar and the dialogs
\* ------------------------------------------------------------------------
\* onClick={() => actions.addConversation()}
NewConversation ==
    /\ FindEmpty(St, 1) # 0 \/ nextConvId <= MaxConvs
    /\ SetStore(addConversation(St, DefaultTitle, nextConvId))
    /\ nextConvId' = IF FindEmpty(St, 1) # 0 THEN nextConvId ELSE nextConvId + 1
    /\ UNCHANGED <<nextMsgId, pageVars, nPipes, pipes, serverVars, storage>>

\* the conversation button and jumpConversation: actions.setCurrent(conv.id)
SelectConversation(id) ==
    /\ id \in ConvIds(St)
    /\ SetStore(setCurrent(St, id))
    /\ UNCHANGED <<nextConvId, nextMsgId, pageVars, nPipes, pipes, serverVars, storage>>

\* the rename dialog: actions.renameConversation(dialog.id, dialogInput.trim())
RenameConversation(id, title) ==
    /\ id \in ConvIds(St)
    /\ Trim(title) # <<>>
    /\ SetStore(renameConversation(St, id, Trim(title)))
    /\ UNCHANGED <<nextConvId, nextMsgId, pageVars, nPipes, pipes, serverVars, storage>>

\* the delete dialog: actions.deleteConversation(dialog.id)
DeleteConversation(id) ==
    /\ id \in ConvIds(St)
    /\ SetStore(deleteConversation(St, id))
    /\ UNCHANGED <<nextConvId, nextMsgId, pageVars, nPipes, pipes, serverVars, storage>>

\* ------------------------------------------------------------------------
\* The environment: the user's inputs and the relayed event stream
\* ------------------------------------------------------------------------
\* UTF-8 bytes of one code point, as the upstream encodes its text
UTF8(cp) ==
    IF cp < 128 THEN <<cp>>
    ELSE IF cp < 2048 THEN <<192 + (cp \div 64), 128 + (cp % 64)>>
    ELSE IF cp < 65536 THEN
        <<224 + (cp \div 4096), 128 + ((cp \div 64) % 64), 128 + (cp % 64)>>
    ELSE <<240 + (cp \div 262144), 128 + ((cp \div 4096) % 64),
           128 + ((cp \div 64) % 64), 128 + (cp % 64)>>

RECURSIVE EncodeText(_)
EncodeText(cps) ==
    IF Len(cps) = 0 THEN <<>> ELSE UTF8(cps[1]) \o EncodeText(Tail(cps))

\* the JavaScript string of a text given by its code points
RECURSIVE ToUnits(_)
ToUnits(cps) ==
    IF Len(cps) = 0 THEN <<>> ELSE CodeUnits(cps[1]) \o ToUnits(Tail(cps))

\* one increment on the wire: every line prefixed with "data: ", then a blank line
Frame(inc) ==
    LET ls == Split(inc, <<NL>>)
    IN  EncodeText(Join([k \in 1..Len(ls) |-> DataPrefix \o ls[k]], <<NL>>) \o Delimiter)

RECURSIVE Wire(_)
Wire(stream) ==
    IF Len(stream) = 0 THEN <<>> ELSE Frame(stream[1]) \o Wire(Tail(stream))

\* increments: "a", "é", "€", U+1F600, "b\nc", "", "z"
IncA == <<97>>
IncE == <<233>>
IncEuro == <<8364>>
IncEmoji == <<128512>>
IncLines == <<98, NL, 99>>
IncEmpty == <<>>
IncZ == <<122>>

\* the event streams of the byte-level runs
WireStreams ==
    { <<IncA, IncE, IncLines>>,
      <<IncEuro, IncEmpty, IncEmoji>>,
      <<IncA, IncE, DoneSentinel, IncZ>>,
      <<DoneSentinel>> }

\* the event streams of the page-level runs
PageStreams ==
    { <<IncA>>, <<IncE, DoneSentinel, IncZ>> }

\* number of bytes up to and including the first blank line (all, if none)
FrameLen(wire) ==
    LET i == IndexFrom(wire, Delimiter, 1)
    IN  IF i = 0 THEN Len(wire) ELSE i + 1

\* "x" thirty-one times with distinct letters: longer than the title
LongInput == [k \in 1..(TitleLen + 1) |-> 64 + k]
\* the turns the user sends: " hi ", files without text, and a long line
\* under the system prompt "P"
Turns ==
    { [input |-> <<32, 104, 105, 32>>, nfiles |-> 0, prompt |-> <<>>],
      [input |-> <<>>, nfiles |-> MaxFiles, prompt |-> <<>>],
      [input |-> LongInput, nfiles |-> 0, prompt |-> <<80>>] }
\* the rename dialog's input: "R "
RenameInputs == { <<82, 32>> }
\* bodies of a non-success response
ErrorTexts == { "" }

\* ------------------------------------------------------------------------
\* Specifications
\* ------------------------------------------------------------------------
\* the page with whole events as network chunks
Next ==
    \/ \E turn \in Turns : HandleSend(turn.input, turn.nfiles, turn.prompt)
    \/ RetryLast
    \/ HandleStop
    \/ \E p \in Pipes : UploadOk(p)
    \/ \E p \in Pipes : UploadFail(p)
    \/ \E p \in Pipes, s \in PageStreams : FetchOk(p, s, Wire(s))
    \/ \E p \in Pipes : FetchNotOk(p)
    \/ \E p \in Pipes, text \in ErrorTexts : ErrorText(p, text)
    \/ \E p \in Pipes : NetworkFail(p)
    \/ \E p \in Pipes : AbortResume(p)
    \/ \E p \in Pipes : ReadChunk(p, FrameLen(pipes[p].wire))
    \/ \E p \in Pipes : ReadEnd(p)
    \/ NewConversation
    \/ \E id \in 1..MaxConvs : SelectConversation(id)
    \/ \E id \in 1..MaxConvs, title \in RenameInputs : RenameConversation(id, title)
    \/ \E id \in 1..MaxConvs : DeleteConversation(id)

Spec == Init /\ [][Next]_vars

\* one send of "hi" whose response arrives cut at arbitrary byte positions
NextStream ==
    \/ nPipes = 0 /\ HandleSend(<<104, 105>>, 0, <<>>)
    \/ \E p \in Pipes, s \in WireStreams : FetchOk(p, s, Wire(s))
    \/ \E p \in Pipes : \E n \in (1..MaxChunk) \cup {Len(pipes[p].wire)} : ReadChunk(p, n)
    \/ \E p \in Pipes : ReadEnd(p)
    \/ \E p \in Pipes : NetworkFail(p)

SpecStream == Init /\ [][NextStream]_vars

\* what the network and the event loop do for invocation p once its request
\* is out: the fetch settles, the body is read to its end, a request fails,
\* or the pending request of an aborted controller rejects
Progress(p) ==
    \/ \E s \in PageStreams : FetchOk(p, s, Wire(s))
    \/ FetchNotOk(p)
    \/ \E text \in ErrorTexts : ErrorText(p, text)
    \/ NetworkFail(p)
    \/ AbortResume(p)
    \/ ReadChunk(p, FrameLen(pipes[p].wire))
    \/ ReadEnd(p)

\* the page with sends of text, retries, Stop and the sidebar; every pending
\* request settles in the end
NextLive ==
    \/ HandleSend(<<104, 105>>, 0, <<>>)
    \/ RetryLast
    \/ HandleStop
    \/ \E p \in Pipes : Progress(p)
    \/ NewConversation
    \/ \E id \in 1..MaxConvs : SelectConversation(id)
    \/ \E id \in 1..MaxConvs : DeleteConversation(id)

SpecLive == Init /\ [][NextLive]_vars /\ \A p \in Pipes : WF_vars(Progress(p))

\* ------------------------------------------------------------------------
\* The store alone: its actions called in any order with any arguments
\* ------------------------------------------------------------------------
\* identifiers a caller may pass: those generated so far, whether their
\* conversation is still in the store or not
AnyConvIds == 1..(nextConvId - 1)

StoreFrame == UNCHANGED <<pageVars, nPipes, pipes, serverVars, storage>>

\* actions.addConversation()
CallAddConversation ==
    /\ FindEmpty(St, 1) # 0 \/ nextConvId <= MaxStored
    /\ SetStore(addConversation(St, DefaultTitle, nextConvId))
    /\ nextConvId' = IF FindEmpty(St, 1) # 0 THEN nextConvId ELSE nextConvId + 1
    /\ UNCHANGED nextMsgId /\ StoreFrame

CallRenameConversation(id, title) ==
    /\ SetStore(renameConversation(St, id, title))
    /\ UNCHANGED <<nextConvId, nextMsgId>> /\ StoreFrame

CallDeleteConversation(id) ==
    /\ SetStore(deleteConversation(St, id))
    /\ UNCHANGED <<nextConvId, nextMsgId>> /\ StoreFrame

CallAddMessage(id, role, content) ==
    /\ nextMsgId <= MaxMsgs
    /\ SetStore(addMessage(St, [id |-> nextMsgId, conversationId |-> id, role |-> role,
                                content |-> content,
                                status |-> IF role = "user" THEN "done" ELSE "streaming",
                                attachments |-> 0]))
    /\ nextMsgId' = nextMsgId + 1
    /\ UNCHANGED nextConvId /\ StoreFrame

CallUpdateMessage(id, messageId, patch) ==
    /\ patch.kind = "append" =>
          \A m \in { MsgList(St, id)[k] : k \in 1..MsgCount(St, id) } :
              m.id = messageId => m.content = <<>>
    /\ SetStore(updateMessage(St, id, messageId, patch))
    /\ UNCHANGED <<nextConvId, nextMsgId>> /\ StoreFrame

CallUpdateStats(id) ==
    /\ SetStore(updateStats(St, id, [lastStatus |-> 200, lastProvider |-> DEFAULT_PROVIDER]))
    /\ UNCHANGED <<nextConvId, nextMsgId>> /\ StoreFrame

CallSetCurrent(id) ==
    /\ SetStore(setCurrent(St, id))
    /\ UNCHANGED <<nextConvId, nextMsgId>> /\ StoreFrame

CallUpdateSystemPrompt(id, prompt) ==
    /\ SetStore(updateSystemPrompt(St, id, prompt))
    /\ UNCHANGED <<nextConvId, nextMsgId>> /\ StoreFrame

NextStore ==
    \/ CallAddConversation
    \/ \E id \in AnyConvIds : CallRenameConversation(id, <<82>>)
    \/ \E id \in AnyConvIds : CallDeleteConversation(id)
    \/ \E id \in AnyConvIds, role \in {"user", "assistant"} :
          CallAddMessage(id, role, <<104, 105>>)
    \/ \E id \in AnyConvIds, messageId \in 1..MaxMsgs,
          patch \in {PatchStatus("done"), PatchAppend(<<97>>)} :
          CallUpdateMessage(id, messageId, patch)
    \/ \E id \in AnyConvIds : CallUpdateStats(id)
    \/ \E id \in AnyConvIds : CallSetCurrent(id)
    \/ \E id \in AnyConvIds : CallUpdateSystemPrompt(id, <<80>>)

SpecStore == Init /\ [][NextStore]_vars

\* ------------------------------------------------------------------------
\* The store with its persistence: operations, write failures, reloads
\* ------------------------------------------------------------------------
Call(op, id, messageId) == [op |-> op, id |-> id, messageId |-> messageId]

Operations ==
    {"addConversation", "renameConversation", "deleteConversation", "addMessage",
     "updateMessage", "updateStats", "setCurrent", "updateSystemPrompt"}

\* the state the setState updater of an operation returns; newConvId and
\* newMsgId are the identifiers generateId() and the caller would supply
Apply(st, call, newConvId, newMsgId) ==
    CASE call.op = "addConversation" -> addConversation(st, DefaultTitle, newConvId)
      [] call.op = "renameConversation" -> renameConversation(st, call.id, <<82>>)
      [] call.op = "deleteConversation" -> deleteConversation(st, call.id)
      [] call.op = "addMessage" ->
            addMessage(st, [id |-> newMsgId, conversationId |-> call.id, role |-> "user",
                            content |-> <<104, 105>>, status |-> "done",
                            attachments |-> 0])
      [] call.op = "updateMessage" ->
            updateMessage(st, call.id, call.messageId, PatchStatus("error"))
      [] call.op = "updateStats" ->
            updateStats(st, call.id, [lastStatus |-> 200, lastProvider |-> DEFAULT_PROVIDER])
      [] call.op = "setCurrent" -> setCurrent(st, call.id)
      [] call.op = "updateSystemPrompt" -> updateSystemPrompt(st, call.id, <<80>>)

\* every updater returns a new state object except setCurrent for an unknown
\* id, which returns prev: no render, no effect
NewState(st, call) ==
    ~(call.op = "setCurrent" /\ FindConv(st.conversations, call.id, 1) = 0)

\* an operation with the effects of the render it causes
Operate(st, sto, call, newConvId, newMsgId, okState, okCurrent) ==
    PersistEffects(st, Apply(st, call, newConvId, newMsgId), NewState(st, call),
                   sto, okState, okCurrent)

PersistFrame == UNCHANGED <<pageVars, nPipes, pipes, serverVars>>

\* identifiers are drawn while the bounds allow
CanCall(call) ==
    /\ call.op = "addConversation" => (FindEmpty(St, 1) # 0 \/ nextConvId <= MaxStored)
    /\ call.op = "addMessage" => nextMsgId <= MaxMsgs

\* one store operation, then the persist effects with the outcome of each
\* write
StoreCall(call, okState, okCurrent) ==
    /\ CanCall(call)
    /\ \E r \in {Operate(St, storage, call, nextConvId, nextMsgId, okState, okCurrent)} :
          /\ r.storage.failures <= MaxFailedWrites
          /\ SetStore(r.store)
          /\ storage' = r.storage
    /\ nextConvId' = IF call.op = "addConversation" /\ FindEmpty(St, 1) = 0
                     THEN nextConvId + 1 ELSE nextConvId
    /\ nextMsgId' = IF call.op = "addMessage" THEN nextMsgId + 1 ELSE nextMsgId
    /\ PersistFrame

PersistAddConversation(okState, okCurrent) ==
    StoreCall(Call("addConversation", NoId, NoId), okState, okCurrent)

PersistRenameConversation(id, okState) ==
    StoreCall(Call("renameConversation", id, NoId), okState, TRUE)

PersistDeleteConversation(id, okState, okCurrent) ==
    StoreCall(Call("deleteConversation", id, NoId), okState, okCurrent)

PersistAddMessage(id, okState) ==
    StoreCall(Call("addMessage", id, NoId), okState, TRUE)

PersistUpdateMessage(id, messageId, okState) ==
    StoreCall(Call("updateMessage", id, messageId), okState, TRUE)

PersistUpdateStats(id, okState) ==
    StoreCall(Call("updateStats", id, NoId), okState, TRUE)

PersistSetCurrent(id, okState, okCurrent) ==
    StoreCall(Call("setCurrent", id, NoId), okState, okCurrent)

PersistUpdateSystemPrompt(id, okState) ==
    StoreCall(Call("updateSystemPrompt", id, NoId), okState, TRUE)

\* the page is loaded again: the component mounts and runs the mount effect
Reload(okState, okCurrent) ==
    /\ Len(loadState(storage).conversations) # 0 \/ nextConvId <= MaxStored
    /\ \E r \in {ColdStart(storage, nextConvId, okState, okCurrent)} :
          /\ r.storage.failures <= MaxFailedWrites
          /\ SetStore(r.store)
          /\ storage' = r.storage
    /\ nextConvId' = IF Len(loadState(storage).conversations) = 0
                     THEN nextConvId + 1 ELSE nextConvId
    /\ UNCHANGED nextMsgId /\ PersistFrame

\* the state slot gets a content the store did not write (site data cleared,
\* another program): nothing, text that does not parse, the text "{}"
ForeignTexts == {<<>>, <<UnparsableText>>, <<EmptyObjectText>>}

ForeignWrite(text) ==
    /\ storage' = [storage EXCEPT !.state = text, !.stale = TRUE]
    /\ UNCHANGED <<storeVars, nextConvId, nextMsgId>> /\ PersistFrame

\* the conversation whose title, prompt and statistics are edited
EditedIds == {1}

NextPersist ==
    \/ \E okState \in BOOLEAN, okCurrent \in BOOLEAN :
          PersistAddConversation(okState, okCurrent)
    \/ \E id \in EditedIds, okState \in BOOLEAN : PersistRenameConversation(id, okState)
    \/ \E id \in ConvIds(St), okState \in BOOLEAN, okCurrent \in BOOLEAN :
          PersistDeleteConversation(id, okState, okCurrent)
    \/ \E id \in ConvIds(St), okState \in BOOLEAN : PersistAddMessage(id, okState)
    \/ \E id \in ConvIds(St), messageId \in 1..MaxMsgs, okState \in BOOLEAN :
          PersistUpdateMessage(id, messageId, okState)
    \/ \E id \in EditedIds, okState \in BOOLEAN : PersistUpdateStats(id, okState)
    \/ \E id \in AnyConvIds, okState \in BOOLEAN, okCurrent \in BOOLEAN :
          PersistSetCurrent(id, okState, okCurrent)
    \/ \E id \in EditedIds, okState \in BOOLEAN : PersistUpdateSystemPrompt(id, okState)
    \/ \E okState \in BOOLEAN, okCurrent \in BOOLEAN : Reload(okState, okCurrent)
    \/ \E text \in ForeignTexts : ForeignWrite(text)

SpecPersist == Init /\ [][NextPersist]_vars

\* ------------------------------------------------------------------------
\* Session values (generateSessionValue, verifySessionValue)
\* ------------------------------------------------------------------------
\* "|"
Bar == 124

IsDigit(c) == c >= 48 /\ c <= 57

\* `${n}` of a non-negative integer
RECURSIVE ToDecimal(_)
ToDecimal(n) ==
    IF n < 10 THEN <<48 + n>> ELSE ToDecimal(n \div 10) \o <<48 + (n % 10)>>

\* value of a non-empty run of decimal digits
RECURSIVE DigitsValue(_)
DigitsValue(ds) ==
    IF Len(ds) = 0 THEN 0
    ELSE 10 * DigitsValue(SubSeq(ds, 1, Len(ds) - 1)) + (ds[Len(ds)] - 48)

\* Number(text) on the numerals of the runs: white space around, an optional
\* sign, decimal digits, an optional "." followed by zeros; "" after trimming
\* is 0. <<>> is NaN: a text with any other character.
NumberOf(text) ==
    LET t    == Trim(text)
        sgn  == IF Len(t) > 0 /\ t[1] \in {43, 45} THEN 1 ELSE 0
        body == SubSeq(t, sgn + 1, Len(t))
        dots == {k \in 1..Len(body) : body[k] = 46}
        int  == IF dots = {} THEN body
                ELSE SubSeq(body, 1, (CHOOSE k \in dots : \A j \in dots : k <= j) - 1)
        frac == SubSeq(body, Len(int) + 2, Len(body))
    IN  IF Len(t) = 0 THEN <<0>>
        ELSE IF /\ Len(int) > 0 \/ Len(frac) > 0
                /\ \A k \in 1..Len(int) : IsDigit(int[k])
                /\ \A k \in 1..Len(frac) : frac[k] = 48
             THEN <<(IF sgn = 1 /\ t[1] = 45 THEN -1 ELSE 1) * DigitsValue(int)>>
             ELSE <<>>

\* first code of the digest alphabet: above every character of the inputs
DigestBase == 1000

\* sha256Hex as a one-way function without collisions: a digest is a text of
\* characters that occur in no input (so never "|"), one per input character
sha256Hex(value) == [k \in 1..Len(value) |-> DigestBase + value[k]]

\* generateSessionValue(username, expiresAt, secret)
generateSessionValue(username, expiresAt, secret) ==
    LET payload   == username \o <<Bar>> \o ToDecimal(expiresAt)
        signature == sha256Hex(payload \o <<Bar>> \o secret)
    IN  payload \o <<Bar>> \o signature

\* verifySessionValue(value, secret) at Date.now() = nowMs: <<>> is null,
\* <<payload>> the SessionPayload; a value of <<>> is undefined or ""
verifySessionValue(value, secret, nowMs) ==
    IF value = <<>> THEN <<>>
    ELSE LET parts      == Split(value, <<Bar>>)
             username   == parts[1]
             expiresRaw == IF Len(parts) >= 2 THEN parts[2] ELSE <<>>
             signature  == IF Len(parts) >= 3 THEN parts[3] ELSE <<>>
             expiresAt  == NumberOf(expiresRaw)
         IN  IF username = <<>> \/ expiresRaw = <<>> \/ signature = <<>> THEN <<>>
             ELSE IF expiresAt = <<>> THEN <<>>
             ELSE IF expiresAt[1] * 1000 < nowMs THEN <<>>
             ELSE IF sha256Hex(username \o <<Bar>> \o ToDecimal(expiresAt[1])
                               \o <<Bar>> \o secret) # signature
                  THEN <<>>
             ELSE <<[username |-> username, expiresAt |-> expiresAt[1]]>>

\* ------------------------------------------------------------------------
\* Basic credentials (loadBasicCredentials, findCredential, decodeBasicCredentials)
\* ------------------------------------------------------------------------
\* ":" and ","
Colon == 58
Comma == 44

\* array.map(f) and array.filter(p) by positions
RECURSIVE Keep(_, _)
Keep(seq, good) ==
    IF Len(seq) = 0 THEN <<>>
    ELSE (IF seq[1] \in good THEN <<seq[1]>> ELSE <<>>) \o Keep(Tail(seq), good)

\* the list without the final filter on empty usernames and passwords
loadBasicCredentialsLoose(raw) ==
    LET pairs == Split(raw, <<Comma>>)
    IN  [k \in 1..Len(pairs) |->
            LET fields == Split(Trim(pairs[k]), <<Colon>>)
            IN  [username |-> Trim(fields[1]),
                 password |-> IF Len(fields) >= 2 THEN fields[2] ELSE <<>>]]

\* loadBasicCredentials on BASIC_AUTH_USERS = raw (<<>>: unset or "")
loadBasicCredentials(raw) ==
    LET pairs == Split(raw, <<Comma>>)
        creds == [k \in 1..Len(pairs) |->
                    LET fields == Split(Trim(pairs[k]), <<Colon>>)
                    IN  [username |-> Trim(fields[1]),
                         password |-> IF Len(fields) >= 2 THEN fields[2] ELSE <<>>]]
    IN  Keep(creds, {c \in {creds[k] : k \in 1..Len(creds)} :
                        c.username # <<>> /\ c.password # <<>>})

\* a lookup by username alone
findCredentialByName(credentials, username, password) ==
    LET hits == {k \in 1..Len(credentials) : credentials[k].username = username}
    IN  IF hits = {} THEN <<>>
        ELSE <<credentials[CHOOSE k \in hits : \A j \in hits : k <= j]>>

\* findCredential(username, password): <<>> is null
findCredential(credentials, username, password) ==
    LET hits == {k \in 1..Len(credentials) :
                    /\ credentials[k].username = username
                    /\ credentials[k].password = password}
    IN  IF hits = {} THEN <<>>
        ELSE <<credentials[CHOOSE k \in hits : \A j \in hits : k <= j]>>

\* getSessionTtlSeconds on BASIC_AUTH_SESSION_TTL = raw (<<>>: unset)
DefaultTtl == 3600
getSessionTtlSeconds(raw) ==
    LET ttl == IF raw = <<>> THEN <<DefaultTtl>> ELSE NumberOf(raw)
    IN  IF ttl # <<>> /\ ttl[1] > 0 THEN ttl[1] ELSE DefaultTtl

\* value of a character of the base64 alphabet, -1 for any other
B64Index(c) ==
    IF c >= 65 /\ c <= 90 THEN c - 65
    ELSE IF c >= 97 /\ c <= 122 THEN c - 71
    ELSE IF c >= 48 /\ c <= 57 THEN c + 4
    ELSE IF c = 43 THEN 62
    ELSE IF c = 47 THEN 63
    ELSE -1

\* the bytes of a run of 6-bit values
RECURSIVE B64Bytes(_)
B64Bytes(v) ==
    IF Len(v) < 2 THEN <<>>
    ELSE <<v[1] * 4 + (v[2] \div 16)>>
         \o (IF Len(v) >= 3 THEN <<(v[2] % 16) * 16 + (v[3] \div 4)>> ELSE <<>>)
         \o (IF Len(v) >= 4 THEN <<(v[3] % 4) * 64 + v[4]>> \o B64Bytes(SubSeq(v, 5, Len(v)))
             ELSE <<>>)

\* atob(text): <<"ok", bytes>>, or <<"throws", <<>>>> (InvalidCharacterError)
atob(text) ==
    LET nosp  == Keep(text, {c \in {text[k] : k \in 1..Len(text)} : ~IsSpace(c) /\ c # 12})
        n     == Len(nosp)
        pad   == IF n % 4 = 0 /\ n > 0 /\ nosp[n] = 61
                 THEN (IF nosp[n - 1] = 61 THEN 2 ELSE 1) ELSE 0
        data  == SubSeq(nosp, 1, n - pad)
    IN  IF Len(data) % 4 = 1 \/ \E k \in 1..Len(data) : B64Index(data[k]) = -1
        THEN <<"throws", <<>> >>
        ELSE <<"ok", B64Bytes([k \in 1..Len(data) |-> B64Index(data[k])])>>

\* "Basic "
BasicPrefix == <<66, 97, 115, 105, 99, 32>>

\* decodeBasicCredentials(authHeader): <<>> is null; a header of <<>> is absent
decodeBasicCredentials(authHeader) ==
    IF ~StartsWith(authHeader, BasicPrefix) THEN <<>>
    ELSE LET decoded == atob(Trim(SubSeq(authHeader, 7, Len(authHeader))))
             separatorIndex == IndexFrom(decoded[2], <<Colon>>, 1)
         IN  IF decoded[1] = "throws" \/ separatorIndex = 0 THEN <<>>
             ELSE <<[username |-> SubSeq(decoded[2], 1, separatorIndex - 1),
                     password |-> SubSeq(decoded[2], separatorIndex + 1,
                                         Len(decoded[2]))]>>

\* the browser's side: btoa of a text of bytes
RECURSIVE btoa(_)
btoa(b) ==
    LET ch(v) == IF v < 26 THEN v + 65 ELSE IF v < 52 THEN v + 71
                 ELSE IF v < 62 THEN v - 4 ELSE IF v = 62 THEN 43 ELSE 47
    IN  IF Len(b) = 0 THEN <<>>
        ELSE IF Len(b) = 1 THEN <<ch(b[1] \div 4), ch((b[1] % 4) * 16), 61, 61>>
        ELSE IF Len(b) = 2
             THEN <<ch(b[1] \div 4), ch((b[1] % 4) * 16 + (b[2] \div 16)),
                    ch((b[2] % 16) * 4), 61>>
        ELSE <<ch(b[1] \div 4), ch((b[1] % 4) * 16 + (b[2] \div 16)),
               ch((b[2] % 16) * 4 + (b[3] \div 64)), ch(b[3] % 64)>>
             \o btoa(SubSeq(b, 4, Len(b)))

\* the Authorization header a browser sends for (username, password)
BasicHeader(username, password) ==
    BasicPrefix \o btoa(username \o <<Colon>> \o password)

\* ------------------------------------------------------------------------
\* The proxy (proxy.ts)
\* ------------------------------------------------------------------------
\* a Set-Cookie of the response; maxAge 0 deletes the cookie
SetCookie(value, maxAge) == <<[value |-> value, maxAge |-> maxAge]>>

LogoutMaxAge == 300

\* NextResponse.redirect's default status
RedirectStatus == 307

\* a response: status, the Basic challenge header, the cookies set, the
\* redirect target, and for NextResponse.next() the user header passed on
Response(status, kind, challenge, setSession, setLogout, location, user) ==
    [status |-> status, kind |-> kind, challenge |-> challenge,
     setSession |-> setSession, setLogout |-> setLogout,
     location |-> location, user |-> user]

unauthorized == Response(401, "unauthorized", TRUE, <<>>, <<>>, <<>>, <<>>)

missingConfiguration == Response(500, "missing", FALSE, <<>>, <<>>, <<>>, <<>>)

\* headers.set(name, value) on the value the request has for that name
HeadersSet(old, value) == <<value>>

\* a pass-through that sets the header only when the request has none
passThroughKeeping(req, username) ==
    Response(200, "next", FALSE, <<>>, <<>>, <<>>,
             IF req.userHeader # <<>> THEN req.userHeader ELSE <<username>>)

\* passThrough(request, username): the request headers with BASIC_USER_HEADER
\* set, handed to NextResponse.next
passThrough(req, username) ==
    Response(200, "next", FALSE, <<>>, <<>>, <<>>, HeadersSet(req.userHeader, username))

\* request.cookies.get(logoutCookieName)?.value === "1"
hasLogoutFlagAlways(req) == TRUE

hasLogoutFlag(req) == req.logoutCookie = <<49>>

\* the session value minted for username at Date.now() = nowMs
MintedFor(env, username, nowMs) ==
    generateSessionValue(username,
                         (nowMs \div 1000) + getSessionTtlSeconds(env.ttl),
                         env.secret)

\* proxy, the branch if (wantsLogout)
ProxyLogout(env, credentials, req, nowMs) ==
    IF ~hasLogoutFlag(req)
    THEN [unauthorized EXCEPT !.setSession = SetCookie(<<>>, 0),
                              !.setLogout = SetCookie(<<49>>, LogoutMaxAge)]
    ELSE LET decoded == decodeBasicCredentials(req.authorization)
         IN  IF decoded = <<>> THEN unauthorized
             ELSE IF findCredential(credentials, decoded[1].username,
                                    decoded[1].password) = <<>>
                  THEN unauthorized
             ELSE Response(RedirectStatus, "redirect", FALSE,
                           SetCookie(MintedFor(env, decoded[1].username, nowMs),
                                     getSessionTtlSeconds(env.ttl)),
                           SetCookie(<<>>, 0),
                           IF req.next # <<>> THEN req.next ELSE <<"/">>,
                           <<>>)

\* proxy, after the logout branch
ProxyNormal(env, credentials, req, nowMs) ==
    LET payload == verifySessionValue(req.sessionCookie, env.secret, nowMs)
        decoded == decodeBasicCredentials(req.authorization)
    IN  IF req.sessionCookie # <<>> /\ payload # <<>>
        THEN passThrough(req, payload[1].username)
        ELSE IF decoded = <<>> THEN unauthorized
        ELSE IF findCredential(credentials, decoded[1].username,
                               decoded[1].password) = <<>>
             THEN unauthorized
        ELSE [passThrough(req, decoded[1].username) EXCEPT
                 !.setSession = SetCookie(MintedFor(env, decoded[1].username, nowMs),
                                          getSessionTtlSeconds(env.ttl))]

\* proxy(request) under process.env = env at Date.now() = nowMs
proxy(env, req, nowMs) ==
    IF env.secret = <<>> THEN missingConfiguration
    ELSE LET credentials == loadBasicCredentials(env.users)
         IN  IF Len(credentials) = 0 THEN missingConfiguration
             ELSE IF req.path = "/logout"
                  THEN ProxyLogout(env, credentials, req, nowMs)
                  ELSE ProxyNormal(env, credentials, req, nowMs)

\* BASIC_AUTH_USERS written for a list of (username, password) pairs
UsersVar(creds) ==
    Join([k \in 1..Len(creds) |-> creds[k].username \o <<Colon>> \o creds[k].password],
         <<Comma>>)

Cred(username, password) == [username |-> username, password |-> password]

\* process.env as deployed: the pairs the operator meant and the variables
ProxyEnv(secret, creds, ttl) ==
    [secret |-> secret, creds |-> creds, users |-> UsersVar(creds), ttl |-> ttl]

\* a configured server (users a:p and b:q, secret s, TTL 5 s); one without
\* secret; one without users; one whose only user has no password
ProxyEnvs ==
    { ProxyEnv(<<115>>, <<Cred(<<97>>, <<112>>), Cred(<<98>>, <<113>>)>>, <<53>>),
      ProxyEnv(<<>>, <<Cred(<<97>>, <<112>>)>>, <<53>>),
      ProxyEnv(<<115>>, <<>>, <<>>),
      ProxyEnv(<<115>>, <<Cred(<<97>>, <<>>)>>, <<53>>) }

\* what the client sends as Authorization, with the pair it typed: nothing,
\* a:p, a:q, b:q, and a header that is not base64
AuthChoices ==
    { [header |-> <<>>, who |-> <<>>],
      [header |-> BasicPrefix \o <<33>>, who |-> <<>>] }
    \cup { [header |-> BasicHeader(c.username, c.password), who |-> <<c>>] :
              c \in { Cred(<<97>>, <<112>>), Cred(<<97>>, <<113>>), Cred(<<98>>, <<113>>) } }

\* a session value signed with a secret that is not the server's
ForgedCookie == generateSessionValue(<<97>>, 100, <<116>>)

\* a session value for a, good until second 100, that a server with secret
\* s issued before this run
EarlierCookie == generateSessionValue(<<97>>, 100, <<115>>)

ProxyTimes == { 0, 6000 }

ProxyFrame == UNCHANGED <<clientVars, tokenRun, chatLast, relay, uploadLast>>

\* the process starts with its environment
StartServer(env) ==
    /\ authEnv = <<>>
    /\ authEnv' = <<env>>
    /\ UNCHANGED <<now, cookies, proxyLast>> /\ ProxyFrame

\* the cookie jar after a Set-Cookie
Jar(old, set) ==
    IF set = <<>> THEN old
    ELSE IF set[1].maxAge = 0 THEN <<>> ELSE set[1].value

\* one request handled by proxy; the browser stores the cookies of the response
ProxyRequest(req) ==
    /\ authEnv # <<>>
    /\ \E resp \in {proxy(authEnv[1], req, now)} :
          /\ proxyLast' = <<[request |-> req, at |-> now, response |-> resp]>>
          /\ cookies' = [session |-> Jar(cookies.session, resp.setSession),
                         logout |-> Jar(cookies.logout, resp.setLogout)]
    /\ UNCHANGED <<now, authEnv>> /\ ProxyFrame

\* time passes
ProxyTick(t) ==
    /\ authEnv # <<>>
    /\ t > now
    /\ now' = t
    /\ UNCHANGED <<authEnv, cookies, proxyLast>> /\ ProxyFrame

\* the requests a client can make in the current state
ProxyRequests ==
    { [path |-> path, next |-> IF path = "/logout" THEN next ELSE <<>>,
       userHeader |-> IF path = "/logout" THEN <<>> ELSE userHeader,
       sessionCookie |-> sc, logoutCookie |-> lc,
       authorization |-> auth.header, who |-> auth.who] :
         path \in {"/logout", "/chat"},
         next \in { <<>>, <<"/chat">> },
         userHeader \in { <<>>, << <<98>> >> },
         sc \in { <<>>, cookies.session, ForgedCookie, EarlierCookie },
         lc \in { <<>>, cookies.logout, <<48>> },
         auth \in AuthChoices }

NextProxy ==
    \/ \E env \in ProxyEnvs : StartServer(env)
    \/ \E req \in ProxyRequests : ProxyRequest(req)
    \/ \E t \in ProxyTimes : ProxyTick(t)

SpecProxy == Init /\ [][NextProxy]_vars

\* the drawn inputs: usernames a, b and a|b; expiries in epoch seconds;
\* secrets s and t; times of verification in milliseconds
SessionUsers == { <<97>>, <<98>>, <<97, Bar, 98>> }
SessionExpiries == { 10, 20 }
SessionSecrets == { <<115>>, <<116>> }
VerifyTimes == { 9000, 10000, 10001, 30000 }

\* texts put in the place of field i of a token minted for (u, e, S): other
\* usernames; other numerals, among them other spellings of e; other digests
FieldTexts(i, u, e, S) ==
    IF i = 1 THEN (SessionUsers \ {u}) \cup { <<>> }
    ELSE IF i = 2
    THEN ( { ToDecimal(x) : x \in SessionExpiries }
           \cup { <<43>> \o ToDecimal(e), <<32>> \o ToDecimal(e), <<48>> \o ToDecimal(e),
                  ToDecimal(e) \o <<46, 48>>, <<120>> } ) \ { ToDecimal(e) }
    ELSE ( { sha256Hex(x \o <<Bar>> \o ToDecimal(y) \o <<Bar>> \o z) :
                x \in SessionUsers, y \in SessionExpiries, z \in SessionSecrets }
           \cup { <<120>> } )
         \ { sha256Hex(u \o <<Bar>> \o ToDecimal(e) \o <<Bar>> \o S) }

SessionFrame ==
    UNCHANGED <<clientVars, authEnv, cookies, proxyLast, chatLast, relay, uploadLast>>

\* the server mints a session value for (u, e, S)
MintSession(u, e, S) ==
    /\ tokenRun = <<>>
    /\ tokenRun' = <<[username |-> u, expiresAt |-> e, secret |-> S,
                      fields |-> <<u, ToDecimal(e),
                                   sha256Hex(u \o <<Bar>> \o ToDecimal(e) \o <<Bar>> \o S)>>,
                      changed |-> 0,
                      presented |-> generateSessionValue(u, e, S),
                      verified |-> FALSE, verifySecret |-> <<>>, result |-> <<>>]>>
    /\ UNCHANGED now /\ SessionFrame

\* a holder of the value replaces its field i by another text
ChangeField(i, text) ==
    /\ tokenRun # <<>>
    /\ tokenRun[1].changed = 0 /\ ~tokenRun[1].verified
    /\ text # tokenRun[1].fields[i]
    /\ tokenRun' = <<[tokenRun[1] EXCEPT
                        !.changed = i,
                        !.presented = Join([tokenRun[1].fields EXCEPT ![i] = text],
                                           <<Bar>>)]>>
    /\ UNCHANGED now /\ SessionFrame

\* verifySessionValue(presented, secret) called at time t
VerifySession(secret, t) ==
    /\ tokenRun # <<>>
    /\ ~tokenRun[1].verified
    /\ now' = t
    /\ tokenRun' = <<[tokenRun[1] EXCEPT
                        !.verified = TRUE, !.verifySecret = secret,
                        !.result = verifySessionValue(tokenRun[1].presented, secret, t)]>>
    /\ SessionFrame

NextSession ==
    \/ \E u \in SessionUsers, e \in SessionExpiries, S \in SessionSecrets :
          MintSession(u, e, S)
    \/ tokenRun # <<>> /\ \E i \in 1..3 :
          \E text \in FieldTexts(i, tokenRun[1].username, tokenRun[1].expiresAt,
                                 tokenRun[1].secret) : ChangeField(i, text)
    \/ \E secret \in SessionSecrets, t \in VerifyTimes : VerifySession(secret, t)

SpecSession == Init /\ [][NextSession]_vars

\* ------------------------------------------------------------------------
\* The provider registry (lib/providers) and the chat gateway
\* (app/api/chat/route.ts)
\* ------------------------------------------------------------------------
\* an optional string is <<>> (undefined, or not a string) or <<s>>
Truthy(opt) == opt # <<>> /\ opt[1] # ""

\* an absolute URL: its origin and its path
Url(origin, path) == [origin |-> origin, path |-> path]

\* new URL(path, base) for a path that starts with "/": the path of the base
\* is replaced
NewURL(path, base) == Url(base.origin, path)

\* the registry under process.env = env
providers(env) ==
    [burncloud |->
        [name |-> "BurnCloud",
         baseUrl |-> IF env.BURNCLOUD_BASE_URL # <<>> THEN env.BURNCLOUD_BASE_URL[1]
                     ELSE Url("https://ai.burncloud.com", ""),
         path |-> "/v1/chat/completions",
         apiKeyEnv |-> "BURNCLOUD_API_KEY",
         models |-> <<"gpt-4.1", "gpt-4o", "claude-3-7-sonnet-20250219",
                      "claude-3-5-sonnet-20241022", "deepseek-r1", "deepseek-v3">>]]

\* `Bearer ${apiKey}`
Bearer(apiKey) == [scheme |-> "Bearer", token |-> apiKey]

\* resolveProvider(key, allowMissingApiKey): <<>> is null; headers is <<>>
\* (undefined) or the Authorization header
resolveProvider(env, key, allowMissingApiKey) ==
    IF key \notin DOMAIN providers(env) THEN <<>>
    ELSE LET provider == providers(env)[key]
             apiKey == env[provider.apiKeyEnv]
         IN  IF ~Truthy(apiKey) /\ ~allowMissingApiKey THEN <<>>
             ELSE <<[name |-> provider.name, baseUrl |-> provider.baseUrl,
                     path |-> provider.path, apiKeyEnv |-> provider.apiKeyEnv,
                     models |-> provider.models,
                     headers |-> IF Truthy(apiKey) THEN <<Bearer(apiKey[1])>> ELSE <<>>]>>

\* a response of the route: a JSON error body {error:{message}}, or the relay
ErrorKind == "error"
StreamKind == "stream"

errorResponse(message, status) ==
    [status |-> status, kind |-> ErrorKind, message |-> <<message>>]

\* the fixed messages of the route
MsgNotJson == "body must be JSON"
MsgBadMessages == "messages must be a non-empty array with role/content"
MsgBadModel == "model must be a string"
MsgBadProvider == "provider must be a string"
MsgNoProvider == "no usable provider or its key is missing"
MsgModelNotAllowed == "model is not in the provider's allow list"
MsgBadAttachments == "attachments are malformed"
MsgUpstreamFailed == "upstream request failed, retry later"
MsgUpstreamAuth == "upstream authentication failed, check the key"
MsgUpstreamOdd == "upstream returned an abnormal response"

\* a JSON value that may be an array: kind is "undefined", "other" or "array"
NotGiven == [kind |-> "undefined", items |-> <<>>]
NotArray == [kind |-> "other", items |-> <<>>]
ArrayOf(items) == [kind |-> "array", items |-> items]

isChatMessageArray(val) ==
    /\ val.kind = "array"
    /\ Len(val.items) > 0
    /\ \A k \in 1..Len(val.items) :
          /\ val.items[k].object
          /\ val.items[k].content # <<>>
          /\ val.items[k].role \in {"user", "assistant", "system"}

\* size and mime are given by their typeof
isAttachmentArray(val) ==
    /\ val.kind = "array"
    /\ \A k \in 1..Len(val.items) :
          /\ val.items[k].object
          /\ val.items[k].type \in {"image", "video"}
          /\ val.items[k].size \in {"undefined", "number"}
          /\ val.items[k].mime \in {"undefined", "string"}

\* modelsAllow.includes(model)
Includes(list, x) == \E k \in 1..Len(list) : list[k] = x

\* the test of line 103 passes for every model
modelAllowedAlways(modelsAllow, model) == TRUE

\* the negation of the test of line 103
modelAllowed(modelsAllow, model) ==
    ~(Len(modelsAllow) > 0 /\ ~Includes(modelsAllow, model))

\* the upstream body is relayed also for 401 and 403
maskedVerbatim(status, text) == IF text # "" THEN text ELSE MsgUpstreamOdd

\* the message for a response that is not relayed
masked(status, text) ==
    IF status = 401 \/ status = 403 THEN MsgUpstreamAuth
    ELSE IF text # "" THEN text ELSE MsgUpstreamOdd

\* the result of the handler before the fetch: a response, or the call made
Replied(resp) == [response |-> <<resp>>, call |-> <<>>]

\* POST up to the fetch, under process.env = env
PostRequest(env, req) ==
    IF ~req.parsed THEN Replied(errorResponse(MsgNotJson, 400))
    ELSE IF ~isChatMessageArray(req.messages)
         THEN Replied(errorResponse(MsgBadMessages, 400))
    ELSE IF req.model = <<>> THEN Replied(errorResponse(MsgBadModel, 400))
    ELSE IF req.provider = <<>> THEN Replied(errorResponse(MsgBadProvider, 400))
    ELSE
    LET overrideBaseUrl == req.providerConfig.baseUrl
        overrideApiKey == req.providerConfig.apiKey
        overrideModels == req.providerConfig.models
        provider == resolveProvider(env, req.provider[1], Truthy(overrideApiKey))
    IN  IF provider = <<>> THEN Replied(errorResponse(MsgNoProvider, 400))
        ELSE
        LET baseUrl == IF overrideBaseUrl # <<>> THEN overrideBaseUrl[1]
                       ELSE provider[1].baseUrl
            modelsAllow == IF overrideModels # <<>> THEN overrideModels[1]
                           ELSE provider[1].models
            streamFlag == IF req.stream # <<>> THEN req.stream[1] ELSE TRUE
            prompt == IF req.systemPrompt # <<>> THEN Trim(req.systemPrompt[1]) ELSE <<>>
        IN  IF ~modelAllowed(modelsAllow, req.model[1])
            THEN Replied(errorResponse(MsgModelNotAllowed, 400))
            ELSE IF req.attachments.kind # "undefined" /\ ~isAttachmentArray(req.attachments)
                 THEN Replied(errorResponse(MsgBadAttachments, 400))
            ELSE [response |-> <<>>,
                  call |-> <<[url |-> NewURL(provider[1].path, baseUrl),
                              authorization |->
                                  IF Truthy(overrideApiKey) THEN <<Bearer(overrideApiKey[1])>>
                                  ELSE provider[1].headers,
                              model |-> req.model[1],
                              system |-> IF prompt # <<>> THEN <<prompt>> ELSE <<>>,
                              messages |-> req.messages.items,
                              stream |-> streamFlag,
                              attachments |-> req.attachments.items]>>]

\* what the fetch brings: it throws, or a response with its status, whether
\* it has a body, the text of the body and whether the text can be read
Unreachable == [kind |-> "throws", status |-> 0, hasBody |-> FALSE, text |-> "",
                readable |-> FALSE]
Upstream(status, hasBody, text, readable) ==
    [kind |-> "response", status |-> status, hasBody |-> hasBody, text |-> text,
     readable |-> readable]

\* upstreamResponse.ok
Ok(up) == up.status >= 200 /\ up.status <= 299

\* POST after the fetch
PostUpstream(up) ==
    IF up.kind = "throws" THEN errorResponse(MsgUpstreamFailed, 502)
    ELSE IF ~Ok(up) \/ ~up.hasBody
         THEN LET text == IF up.hasBody /\ up.readable THEN up.text ELSE ""
              IN  errorResponse(masked(up.status, text),
                                IF up.status # 0 THEN up.status ELSE 502)
    ELSE [status |-> 200, kind |-> StreamKind, message |-> <<>>]

\* process.env of the gateway: the key set, unset and empty; the base URL set
GatewayEnv(apiKey, baseUrl) ==
    [BURNCLOUD_API_KEY |-> apiKey, BURNCLOUD_BASE_URL |-> baseUrl]

GatewayEnvs ==
    { GatewayEnv(<<"sk-env">>, <<>>),
      GatewayEnv(<<>>, <<>>),
      GatewayEnv(<<"">>, <<>>),
      GatewayEnv(<<"sk-env">>, <<Url("https://mirror.example", "")>>) }

UserMessage == [object |-> TRUE, role |-> "user", content |-> <<"hi">>]

\* message lists: none, one with an unknown role, one well formed
MessageChoices ==
    { NotGiven,
      ArrayOf(<<UserMessage, [object |-> TRUE, role |-> "tool", content |-> <<"x">>]>>),
      ArrayOf(<<UserMessage>>) }

\* attachment lists: none, not an array, one of an unknown type, one well
\* formed
AttachmentChoices ==
    { NotGiven, NotArray,
      ArrayOf(<<[object |-> TRUE, type |-> "audio", size |-> "number", mime |-> "string"]>>),
      ArrayOf(<<[object |-> TRUE, type |-> "image", size |-> "number", mime |-> "undefined"]>>) }

\* providerConfig: nothing, or a base URL, a key and a model list of the
\* caller
ProviderConfigs ==
    { [baseUrl |-> b, apiKey |-> k, models |-> m] :
         b \in { <<>>, <<Url("https://gw.example", "/api")>> },
         k \in { <<>>, <<"">>, <<"sk-own">> },
         m \in { <<>>, << <<>> >>, << <<"my-model">> >> } }

\* the bodies a client can post
ChatRequests ==
    { [parsed |-> FALSE, messages |-> NotGiven, model |-> <<>>, provider |-> <<>>,
       attachments |-> NotGiven, stream |-> <<>>, systemPrompt |-> <<>>,
       providerConfig |-> [baseUrl |-> <<>>, apiKey |-> <<>>, models |-> <<>>]] }
    \cup
    { [parsed |-> TRUE, messages |-> ms, model |-> model, provider |-> key,
       attachments |-> at, stream |-> stream, systemPrompt |-> prompt,
       providerConfig |-> pc] :
         ms \in MessageChoices,
         model \in { <<>>, <<"gpt-4o">>, <<"my-model">> },
         key \in { <<>>, <<"burncloud">>, <<"openai">> },
         at \in AttachmentChoices,
         stream \in { <<>>, <<FALSE>> },
         prompt \in { <<>>, << <<32, 98, 32>> >> },
         pc \in ProviderConfigs }

\* what the upstream can answer; the statuses are ones with which a response
\* carries a body
UpstreamOutcomes ==
    { Unreachable,
      Upstream(200, TRUE, "data", TRUE),
      Upstream(200, FALSE, "", FALSE),
      Upstream(400, TRUE, "detail", FALSE) }
    \cup { Upstream(s, TRUE, text, TRUE) :
              s \in {301, 400, 401, 403, 500}, text \in {"", "detail"} }

GatewayFrame ==
    UNCHANGED <<clientVars, now, cookies, proxyLast, tokenRun, relay, uploadLast>>

\* the process starts with its environment
StartGateway(env) ==
    /\ authEnv = <<>>
    /\ authEnv' = <<env>>
    /\ UNCHANGED chatLast /\ GatewayFrame

\* POST receives a request and answers it or calls the upstream
PostChat(req) ==
    /\ authEnv # <<>>
    /\ chatLast = <<>>
    /\ \E res \in {PostRequest(authEnv[1], req)} :
          chatLast' = <<[request |-> req, call |-> res.call, upstream |-> <<>>,
                         response |-> res.response]>>
    /\ UNCHANGED authEnv /\ GatewayFrame

\* the fetch settles and POST answers
UpstreamAnswers(up) ==
    /\ chatLast # <<>>
    /\ chatLast[1].response = <<>>
    /\ chatLast' = <<[chatLast[1] EXCEPT !.upstream = <<up>>,
                                         !.response = <<PostUpstream(up)>>]>>
    /\ UNCHANGED authEnv /\ GatewayFrame

\* the exchange is over
ChatDone ==
    /\ chatLast # <<>>
    /\ chatLast[1].response # <<>>
    /\ chatLast' = <<>>
    /\ UNCHANGED authEnv /\ GatewayFrame

NextGateway ==
    \/ \E env \in GatewayEnvs : StartGateway(env)
    \/ \E req \in ChatRequests : PostChat(req)
    \/ \E up \in UpstreamOutcomes : UpstreamAnswers(up)
    \/ ChatDone

SpecGateway == Init /\ [][NextGateway]_vars

\* ------------------------------------------------------------------------
\* The relay of a successful upstream response (route.ts, the ReadableStream
\* of POST)
\* ------------------------------------------------------------------------
\* what the relay puts on the downstream stream: an upstream chunk, or the
\* encoded text `event: error\ndata: ${String(error)}\n\n`
Chunk(bytes) == [kind |-> "chunk", bytes |-> bytes, data |-> ""]
ErrorEvent(err) == [kind |-> "error-event", bytes |-> 0, data |-> err]

\* controller.enqueue(item): it throws a TypeError unless the stream is
\* readable
Enqueue(r, item) ==
    IF r.stream = "readable"
    THEN [ok |-> TRUE, r |-> [r EXCEPT !.downstream = Append(@, item)]]
    ELSE [ok |-> FALSE, r |-> r]

\* the finally block after a try or catch that left an exception pending or
\* not: controller.close() throws a TypeError unless the stream is readable,
\* and then reader.releaseLock() is not reached
Finally(r, pending) ==
    IF r.stream # "readable" THEN [r EXCEPT !.pc = "threw"]
    ELSE [r EXCEPT !.stream = "closed", !.closes = @ + 1,
                   !.locked = FALSE, !.releases = @ + 1,
                   !.pc = IF pending THEN "threw" ELSE "returned"]

\* a catch block that puts the stream in the errored state
CatchErrors(r, err) ==
    [r EXCEPT !.stream = IF @ = "readable" THEN "errored" ELSE @, !.pc = "threw"]

\* the catch block, then finally
Catch(r, err) ==
    LET e == Enqueue(r, ErrorEvent(err))
    IN  Finally(e.r, ~e.ok)

\* the next result of reader.read()
NextRead(r) ==
    IF r.read < Len(r.chunks) THEN [kind |-> "value", bytes |-> r.chunks[r.read + 1]]
    ELSE [kind |-> r.ending, bytes |-> 0]

\* one turn of the loop: await reader.read() settles and the code runs to the
\* next await or to the end of start
OnRead(r) ==
    LET res == NextRead(r)
    IN  IF res.kind = "rejects" THEN Catch(r, "read failed")
        ELSE IF res.kind = "done" THEN Finally(r, FALSE)
        ELSE LET e == Enqueue([r EXCEPT !.read = @ + 1], Chunk(res.bytes))
             IN  IF e.ok THEN e.r ELSE Catch(e.r, "TypeError")

\* the upstream bodies: up to three chunks, then the end or a failed read
RelayChunks ==
    { <<>> } \cup { <<a>> : a \in {1, 2} } \cup { <<a, b>> : a, b \in {1, 2} }
    \cup { <<a, b, c>> : a, b, c \in {1, 2} }

RelayFrame ==
    UNCHANGED <<clientVars, now, authEnv, cookies, proxyLast, tokenRun, chatLast, uploadLast>>

\* new ReadableStream({start}): start takes the reader and awaits the first
\* read
StartRelay(chunks, ending) ==
    /\ relay = <<>>
    /\ relay' = <<[chunks |-> chunks, ending |-> ending, read |-> 0,
                   downstream |-> <<>>, stream |-> "readable", cancelled |-> FALSE,
                   locked |-> TRUE, closes |-> 0, releases |-> 0, pc |-> "reading"]>>
    /\ RelayFrame

\* a read of the upstream settles
ReadSettles ==
    /\ relay # <<>>
    /\ relay[1].pc = "reading"
    /\ relay' = <<OnRead(relay[1])>>
    /\ RelayFrame

\* the client cancels the response stream; the underlying source has no
\* cancel callback
CancelDownstream ==
    /\ relay # <<>>
    /\ relay[1].pc = "reading"
    /\ relay[1].stream = "readable"
    /\ relay' = <<[relay[1] EXCEPT !.stream = "closed", !.cancelled = TRUE]>>
    /\ RelayFrame

NextRelay ==
    \/ \E chunks \in RelayChunks, ending \in {"done", "rejects"} : StartRelay(chunks, ending)
    \/ ReadSettles
    \/ CancelDownstream

SpecRelay == Init /\ [][NextRelay]_vars

\* ------------------------------------------------------------------------
\* The relay and the page together: a send reads what the relay wrote
\* ------------------------------------------------------------------------
\* String(error) of the error a failed read rejects with: "Error: x" for an
\* Error with message x, "TypeError: x" for the TypeError of enqueue
StringOfError(err) ==
    IF err = "TypeError" THEN <<84, 121, 112, 101, 69, 114, 114, 111, 114, 58, 32, 120>>
    ELSE <<69, 114, 114, 111, 114, 58, 32, 120>>

\* encoder.encode(`event: error\ndata: ${String(error)}\n\n`)
ErrorEventBytes(err) ==
    EncodeText(<<101, 118, 101, 110, 116, 58, 32, 101, 114, 114, 111, 114, NL>>
               \o DataPrefix \o StringOfError(err) \o Delimiter)

\* the upstream body of a stream of increments: one chunk per event
ChunksOf(stream) == [k \in 1..Len(stream) |-> Len(Frame(stream[k]))]

\* the bytes of what the relay enqueued, when the k-th upstream chunk is the
\* k-th event of stream
RECURSIVE BodyOf(_, _)
BodyOf(downstream, stream) ==
    IF Len(downstream) = 0 THEN <<>>
    ELSE IF downstream[1].kind = "chunk"
         THEN Frame(stream[1]) \o BodyOf(Tail(downstream), Tail(stream))
         ELSE ErrorEventBytes(downstream[1].data) \o BodyOf(Tail(downstream), stream)

\* the upstream answers relayed to the page: "a", and "a" then "é"
RelayedStreams == { <<IncA>>, <<IncA, IncE>> }

\* the page's fetch resolves with the body the relay has written and closed
FetchRelayed(p, stream) ==
    /\ relay # <<>>
    /\ relay[1].pc # "reading"
    /\ relay[1].stream = "closed"
    /\ relay[1].chunks = ChunksOf(stream)
    /\ FetchOk(p, stream, BodyOf(relay[1].downstream, stream))

\* one send of "hi" answered through the relay, whose upstream ends or fails
\* after its chunks; the page reads the body cut at arbitrary byte positions
NextRelayed ==
    \/ nPipes = 0 /\ HandleSend(<<104, 105>>, 0, <<>>)
    \/ \E s \in RelayedStreams, ending \in {"done", "rejects"} :
          StartRelay(ChunksOf(s), ending)
    \/ ReadSettles
    \/ \E p \in Pipes, s \in RelayedStreams : FetchRelayed(p, s)
    \/ \E p \in Pipes : \E n \in (1..MaxChunk) \cup {Len(pipes[p].wire)} : ReadChunk(p, n)
    \/ \E p \in Pipes : ReadEnd(p)

SpecRelayed == Init /\ [][NextRelayed]_vars

\* ------------------------------------------------------------------------
\* Upload intake (app/api/upload/route.ts)
\* ------------------------------------------------------------------------
MAX_SIZE == 5 * 1024 * 1024

\* "image/" and "video/"
ALLOWED == << <<105, 109, 97, 103, 101, 47>>, <<118, 105, 100, 101, 111, 47>> >>

MsgNoFile == "file not found"
MsgBadType == "only image or video files are supported"
MsgTooLarge == "file exceeds the 5MB limit"

\* NextResponse.json({error:{message}}, {status: 400})
UploadError(message) ==
    [status |-> 400, kind |-> ErrorKind, message |-> <<message>>, file |-> <<>>]

\* ALLOWED.some((prefix) => file.type.startsWith(prefix))
AllowedType(type) == \E k \in 1..Len(ALLOWED) : StartsWith(type, ALLOWED[k])

\* the size test with the limit itself rejected
TooLargeFromLimit(size) == size >= MAX_SIZE

\* file.size > MAX_SIZE
TooLarge(size) == size > MAX_SIZE

\* `data:${file.type};base64,${base64}` for the bytes of the file
DataUrl(type, content) == [scheme |-> "data", mime |-> type, base64Of |-> content]

\* POST for a form whose "file" entry is entry: <<>> is no entry; an entry is
\* a File or a string
UploadPOST(entry) ==
    IF entry = <<>> \/ ~entry[1].isFile THEN UploadError(MsgNoFile)
    ELSE IF ~AllowedType(entry[1].type) THEN UploadError(MsgBadType)
    ELSE IF TooLarge(entry[1].size) THEN UploadError(MsgTooLarge)
    ELSE [status |-> 200, kind |-> "file", message |-> <<>>,
          file |-> <<[url |-> DataUrl(entry[1].type, entry[1].content),
                      thumbUrl |-> DataUrl(entry[1].type, entry[1].content),
                      mime |-> entry[1].type, size |-> entry[1].size,
                      name |-> entry[1].name]>>]

\* image/png, video/mp4, text/plain, no type, "image", application/image/x
UploadTypes ==
    { <<105, 109, 97, 103, 101, 47, 112, 110, 103>>,
      <<118, 105, 100, 101, 111, 47, 109, 112, 52>>,
      <<116, 101, 120, 116, 47, 112, 108, 97, 105, 110>>,
      <<>>,
      <<105, 109, 97, 103, 101>>,
      <<97, 112, 112, 47, 105, 109, 97, 103, 101, 47, 120>> }

UploadSizes == { 0, 1, MAX_SIZE - 1, MAX_SIZE, MAX_SIZE + 1, 2 * MAX_SIZE }

\* the "file" entries of a form: none, a string, a File
UploadEntries ==
    { <<>>,
      <<[isFile |-> FALSE, type |-> <<>>, size |-> 0, name |-> "", content |-> 0]>> }
    \cup { <<[isFile |-> TRUE, type |-> type, size |-> size, name |-> name,
              content |-> 1]>> :
              type \in UploadTypes, size \in UploadSizes, name \in {"a.png", "b", ""} }

UploadFrame ==
    UNCHANGED <<clientVars, now, authEnv, cookies, proxyLast, tokenRun, chatLast, relay>>

\* one request to the route
UploadRequest(entry) ==
    /\ uploadLast' = <<[entry |-> entry, response |-> UploadPOST(entry)]>>
    /\ UploadFrame

NextUpload == \E entry \in UploadEntries : UploadRequest(entry)

SpecUpload == Init /\ [][NextUpload]_vars

\* ------------------------------------------------------------------------
\* Properties
\* ------------------------------------------------------------------------
IsPrefix(a, b) == Len(a) <= Len(b) /\ a = SubSeq(b, 1, Len(a))

RECURSIVE Concat(_)
Concat(seqs) == IF Len(seqs) = 0 THEN <<>> ELSE seqs[1] \o Concat(Tail(seqs))

\* the strings a stream of increments is to deliver: the non-empty increments
\* before the first [DONE]
RECURSIVE Expected(_)
Expected(stream) ==
    IF Len(stream) = 0 \/ stream[1] = DoneSentinel THEN <<>>
    ELSE (IF stream[1] # <<>> THEN <<ToUnits(stream[1])>> ELSE <<>>)
         \o Expected(Tail(stream))

\* the messages with identifier id in the list of conversation conv
MessagesOf(conv, id) ==
    LET list == MsgList(St, conv)
    IN  {list[k] : k \in {j \in 1..Len(list) : list[j].id = id}}

\* invocation p has appended its assistant message
HasAssistant(p) == pipes[p].aid # NoId

\* number of bytes of the stream up to the end of the [DONE] event, 0 if none
RECURSIVE SentinelEnd(_)
SentinelEnd(stream) ==
    IF Len(stream) = 0 THEN 0
    ELSE IF stream[1] = DoneSentinel THEN Len(Frame(stream[1]))
    ELSE LET e == SentinelEnd(Tail(stream))
         IN  IF e = 0 THEN 0 ELSE Len(Frame(stream[1])) + e

\* number of bytes of the response invocation p has read
Consumed(p) == Len(Wire(pipes[p].stream)) - Len(pipes[p].wire)

\* C1: however the byte stream is cut into chunks, the lines handed to the
\* delta callback are a prefix of the stream's increments, in order; the
\* assistant message's content is their concatenation (nothing lost, nothing
\* applied twice); and when the stream has been read to its end, all of the
\* increments have been delivered.
C1_ChunkInvariant ==
    \A p \in Pipes :
        /\ IsPrefix(pipes[p].delivered, Expected(pipes[p].stream))
        /\ HasAssistant(p) =>
              \A m \in MessagesOf(pipes[p].conv, pipes[p].aid) :
                  m.content = Concat(pipes[p].delivered)
        /\ pipes[p].result = "ok" =>
              /\ pipes[p].delivered = Expected(pipes[p].stream)
              /\ \E m \in MessagesOf(pipes[p].conv, pipes[p].aid) :
                    m.content = Concat(Expected(pipes[p].stream))

\* a stream read to its end after a chunk ended inside a multi-byte character
\* and another between the two newlines of a delimiter
C1_Witness ==
    \E p \in Pipes :
        /\ pipes[p].result = "ok"
        /\ pipes[p].stream = <<IncEuro, IncEmpty, IncEmoji>>
        /\ pipes[p].cutChar /\ pipes[p].cutDelimiter
        /\ \E m \in MessagesOf(pipes[p].conv, pipes[p].aid) :
              m.content = <<8364, 55357, 56832>>

\* C2: once the bytes read include the whole [DONE] event, streamChat has
\* returned its status: the send is complete, the lines delivered are the
\* increments before the sentinel, and the message holds their concatenation
\* with status done.
C2_SentinelStops ==
    \A p \in Pipes :
        ( /\ pipes[p].pc \in {"read", "finished"}
          /\ pipes[p].stream # <<>>
          /\ SentinelEnd(pipes[p].stream) # 0
          /\ Consumed(p) >= SentinelEnd(pipes[p].stream) )
        => /\ pipes[p].pc = "finished"
           /\ pipes[p].result = "ok"
           /\ pipes[p].delivered = Expected(pipes[p].stream)
           /\ toast = <<[type |-> "info", message |-> "finished"]>>
           /\ \E m \in MessagesOf(pipes[p].conv, pipes[p].aid) :
                 /\ m.content = Concat(Expected(pipes[p].stream))
                 /\ m.status = "done"

\* the stream a, é, [DONE], z ended at the sentinel with part of the trailing
\* event read in the same chunk and the rest never read
C2_Witness ==
    \E p \in Pipes :
        /\ pipes[p].stream = <<IncA, IncE, DoneSentinel, IncZ>>
        /\ pipes[p].result = "ok"
        /\ pipes[p].wire # <<>>
        /\ Len(pipes[p].wire) < Len(Frame(IncZ))
        /\ \E m \in MessagesOf(pipes[p].conv, pipes[p].aid) :
              m.content = <<97, 233>> /\ m.status = "done"

Terminal == {"done", "error"}

\* invocations between their start and their completion
InFlight == {p \in Pipes : pipes[p].pc \notin {"idle", "finished"}}

\* identifiers of all messages in the store
AllMessageIds ==
    UNION { {messages[c][k].id : k \in 1..Len(messages[c])} : c \in DOMAIN messages }

\* positions of the conversations without messages
EmptyConvs(st) ==
    {k \in 1..Len(st.conversations) : MsgCount(st, st.conversations[k].id) = 0}

\* title of conversation id in the list convs
TitleOf(convs, id) == convs[FindConv(convs, id, 1)].title

\* C3: a send that failed (error callback invoked) leaves its assistant
\* message with status error once the send has completed.
C3_FailedStaysError ==
    \A p \in Pipes :
        (pipes[p].pc = "finished" /\ pipes[p].errors > 0)
        => \A m \in MessagesOf(pipes[p].conv, pipes[p].aid) : m.status = "error"

\* C4: in every step, a message whose status is done or error keeps its
\* content.
C4_TerminalContentFrozen ==
    [][ \A c \in DOMAIN messages \cap DOMAIN messages' :
          \A k \in 1..Len(messages[c]) :
             messages[c][k].status \in Terminal
             => \A j \in 1..Len(messages'[c]) :
                   messages'[c][j].id = messages[c][k].id
                   => messages'[c][j].content = messages[c][k].content ]_vars

\* a stream is being applied to a conversation that already holds a completed
\* assistant message with content
C4_Witness ==
    \E p, q \in Pipes :
        /\ p # q
        /\ pipes[q].pc = "finished" /\ pipes[p].pc = "read"
        /\ pipes[p].conv = pipes[q].conv
        /\ pipes[p].delivered # <<>>
        /\ \E m \in MessagesOf(pipes[q].conv, pipes[q].aid) :
              m.status = "done" /\ m.content # <<>>
        /\ \E m \in MessagesOf(pipes[p].conv, pipes[p].aid) :
              m.status = "streaming" /\ m.content # <<>>

\* C5: at most one send pipeline is between its start and its completion.
C5_SingleFlight == Cardinality(InFlight) <= 1

\* Stop pressed on a live controller
StopStep ==
    /\ controllerRef # <<>>
    /\ ~pipes[controllerRef[1]].aborted
    /\ pipes'[controllerRef[1]].aborted

\* C6: a Stop step leaves error, toast, the store and the retained payload
\* alone, and the retained payload is that of the aborted send; an aborted
\* invocation completes without the error callback, without changing error
\* or toast, and without its message being marked error; and whenever no
\* controller is held isSending is false, so a Stop then changes nothing.
C6_StopIsSilent ==
    [][ /\ StopStep =>
            /\ error' = error /\ toast' = toast
            /\ storeVars' = storeVars
            /\ lastPayloadRef' = lastPayloadRef
            /\ lastPayloadRef' = pipes[controllerRef[1]].payload
            /\ controllerRef' = <<>> /\ ~isSending'
        /\ \A p \in Pipes :
            (pipes[p].aborted /\ pipes[p].pc # "finished" /\ pipes'[p].pc = "finished")
            => /\ pipes'[p].errors = 0
               /\ error' = error /\ toast' = toast
               /\ lastPayloadRef' = lastPayloadRef
               /\ \A c \in DOMAIN messages' : \A k \in 1..Len(messages'[c]) :
                     messages'[c][k].id = pipes[p].aid
                     => messages'[c][k].status # "error"
        /\ controllerRef' = <<>> => ~isSending' ]_vars

\* a send stopped in the middle of its stream has completed without error
C6_Witness ==
    \E p \in Pipes :
        /\ pipes[p].pc = "finished" /\ pipes[p].aborted
        /\ pipes[p].delivered # <<>>
        /\ pipes[p].errors = 0
        /\ error = <<>> /\ toast = <<>>
        /\ lastPayloadRef # <<>>
        /\ \E m \in MessagesOf(pipes[p].conv, pipes[p].aid) :
              m.status = "done" /\ m.content = Concat(pipes[p].delivered)

\* invocation p is started by retryLast in this step
RetryStep(p) == pipes[p].pc = "idle" /\ pipes'[p].kind = "retry"

\* C7: the retained payload is written only by handleSend; a retry sends
\* exactly the retained payload and keeps it, and appends to the current
\* conversation one assistant message with a fresh identifier, status
\* streaming and no content, leaving every other message as it was.
C7_RetryFrame ==
    [][ /\ lastPayloadRef' # lastPayloadRef =>
            \E p \in Pipes :
                /\ pipes[p].pc \in {"idle", "upload"}
                /\ pipes'[p].kind = "send" /\ pipes'[p].pc = "fetch"
                /\ lastPayloadRef' = pipes'[p].payload
        /\ \A p \in Pipes : RetryStep(p) =>
            LET c == pipes'[p].conv
                n == Len(messages[c])
            IN  /\ lastPayloadRef # <<>>
                /\ pipes'[p].payload = lastPayloadRef
                /\ lastPayloadRef' = lastPayloadRef
                /\ c = currentConversationId(St)
                /\ DOMAIN messages' = DOMAIN messages
                /\ \A d \in DOMAIN messages \ {c} : messages'[d] = messages[d]
                /\ Len(messages'[c]) = n + 1
                /\ SubSeq(messages'[c], 1, n) = messages[c]
                /\ messages'[c][n + 1].id = pipes'[p].aid
                /\ messages'[c][n + 1].id \notin AllMessageIds
                /\ messages'[c][n + 1].role = "assistant"
                /\ messages'[c][n + 1].status = "streaming"
                /\ messages'[c][n + 1].content = <<>> ]_vars

\* a retry is in flight in the conversation of a failed send, whose message
\* is still there next to the new one
C7_Witness ==
    \E p, q \in Pipes :
        /\ pipes[q].pc = "finished" /\ pipes[q].kind = "send" /\ pipes[q].errors > 0
        /\ pipes[p].kind = "retry" /\ pipes[p].pc = "fetch"
        /\ pipes[p].conv = pipes[q].conv
        /\ pipes[p].payload = lastPayloadRef
        /\ MessagesOf(pipes[q].conv, pipes[q].aid) # {}
        /\ \E m \in MessagesOf(pipes[p].conv, pipes[p].aid) : m.status = "streaming"

\* C8: at most one conversation has no messages; and from the current store,
\* a second addConversation right after a first keeps the number of
\* conversations, puts a conversation without messages first and current;
\* the first call creates one only when no conversation was empty.
C8_NoSecondEmpty ==
    /\ Cardinality(EmptyConvs(St)) <= 1
    /\ LET s1 == addConversation(St, DefaultTitle, nextConvId)
           s2 == addConversation(s1, DefaultTitle, nextConvId + 1)
       IN  /\ Len(s2.conversations) = Len(s1.conversations)
           /\ s2.currentId = s1.currentId
           /\ s2.conversations[1].id = s2.currentId
           /\ MsgCount(s2, s2.currentId) = 0
           /\ Cardinality(EmptyConvs(s2)) = 1
           /\ Len(s1.conversations) =
                 Len(conversations) + (IF EmptyConvs(St) = {} THEN 1 ELSE 0)

\* a second conversation was created after the first got messages, and it is
\* the empty one, first and current
C8_Witness ==
    /\ Len(conversations) = 2
    /\ EmptyConvs(St) = {1}
    /\ currentId = conversations[1].id
    /\ conversations[1].id = 2

\* C9: a conversation without messages whose title is not the default one
\* (it was renamed) keeps that title when messages are added to it.
C9_RenameKept ==
    [][ \A k \in 1..Len(conversations) :
          LET c == conversations[k]
          IN  ( /\ c.title # DefaultTitle
                /\ MsgCount(St, c.id) = 0
                /\ c.id \in DOMAIN messages' /\ Len(messages'[c.id]) > 0
                /\ FindConv(conversations', c.id, 1) # 0 )
              => TitleOf(conversations', c.id) = c.title ]_vars

\* C10: in a step that appends messages to a conversation, the title becomes
\* the first 30 characters of the first appended message when the list was
\* empty and that message is a user message with content; otherwise the
\* title stays.
C10_TitleFromFirstUserMessage ==
    [][ \A k \in 1..Len(conversations) :
          LET c == conversations[k]
              n == MsgCount(St, c.id)
          IN  ( /\ c.id \in DOMAIN messages' /\ Len(messages'[c.id]) > n
                /\ FindConv(conversations', c.id, 1) # 0
                /\ c.title = DefaultTitle \/ n > 0 )
              => LET m == messages'[c.id][n + 1]
                 IN  TitleOf(conversations', c.id) =
                        IF n = 0 /\ m.role = "user" /\ m.content # <<>>
                        THEN Slice(m.content, TitleLen)
                        ELSE c.title ]_vars

\* a conversation is titled with the first 30 of the 31 characters of its
\* first user message
C10_Witness ==
    \E k \in 1..Len(conversations) :
        LET list == MsgList(St, conversations[k].id)
        IN  /\ Len(list) > 0
            /\ list[1].role = "user" /\ list[1].content = LongInput
            /\ Len(conversations[k].title) = TitleLen
            /\ conversations[k].title = SubSeq(LongInput, 1, TitleLen)

\* C11: a step that removes a conversation removes exactly that conversation
\* and exactly its message list, leaves the other conversations and lists as
\* they were, and, when the removed conversation was current, makes the first
\* remaining conversation current, or none when no conversation remains.
C11_DeleteIsAtomic ==
    [][ \A id \in ConvIds(St) \ ConvIds(St') :
          /\ conversations' = FilterOut(conversations, id)
          /\ DOMAIN messages' = DOMAIN messages \ {id}
          /\ \A d \in DOMAIN messages' : messages'[d] = messages[d]
          /\ currentConversationId(St) = id =>
                currentConversationId(St') =
                   (IF Len(conversations') > 0 THEN conversations'[1].id ELSE NoId) ]_vars

\* the only conversation, which had messages and was current, has been
\* deleted after its sends completed: no conversation, no list, none current
C11_Witness ==
    /\ conversations = <<>>
    /\ DOMAIN messages = {}
    /\ currentConversationId(St) = NoId
    /\ nextMsgId > 1
    /\ nextConvId = 2
    /\ InFlight = {}

\* positions of the conversations whose id is the current conversation id
CurrentPositions ==
    {k \in 1..Len(conversations) : conversations[k].id = currentConversationId(St)}

\* C12: when the store holds a conversation, the current conversation id is
\* the id of exactly one conversation of the store; when it holds none, the
\* current conversation id is empty.
C12_CurrentExists ==
    IF Len(conversations) > 0
    THEN Cardinality(CurrentPositions) = 1
    ELSE currentConversationId(St) = NoId

\* two conversations were created and the second, current one was deleted:
\* the first is current again
C12_Witness ==
    /\ nextConvId = 3
    /\ Len(conversations) = 1
    /\ conversations[1].id = 1
    /\ currentConversationId(St) = 1
    /\ 2 \notin DOMAIN messages

\* C13: a session value presented as minted for (u, e, S) is accepted under
\* secret S' at time t exactly when S' = S and t is not after e, and then the
\* payload returned is (u, e).
C13_SessionRoundTrip ==
    (tokenRun # <<>> /\ tokenRun[1].verified /\ tokenRun[1].changed = 0)
    => LET r == tokenRun[1]
       IN  /\ r.result # <<>> <=> (r.verifySecret = r.secret /\ ~(now > r.expiresAt * 1000))
           /\ r.result # <<>> =>
                 r.result[1] = [username |-> r.username, expiresAt |-> r.expiresAt]

\* C14: a session value with one field replaced by a different text is
\* rejected.
C14_ChangedFieldRejected ==
    (tokenRun # <<>> /\ tokenRun[1].verified /\ tokenRun[1].changed # 0)
    => tokenRun[1].result = <<>>

\* ------------------------------------------------------------------------
\* The proxy: what the last request was and how it was answered
\* ------------------------------------------------------------------------
\* the pairs of the deployment that have a username and a password
UsablePairs(env) ==
    { env.creds[k] : k \in { j \in 1..Len(env.creds) :
                               /\ env.creds[j].username # <<>>
                               /\ env.creds[j].password # <<>> } }

\* the deployment has a signing secret and at least one usable pair
Configured(env) == env.secret # <<>> /\ UsablePairs(env) # {}

Answered == authEnv # <<>> /\ proxyLast # <<>>

\* the client typed a pair of the deployment
BasicValid(env, req) == req.who # <<>> /\ req.who[1] \in UsablePairs(env)

\* the request carries a session cookie that verifies under the secret
CookieValid(env, req, at) ==
    req.sessionCookie # <<>> /\ verifySessionValue(req.sessionCookie, env.secret, at) # <<>>

CarriesMarker(req) == req.logoutCookie = <<49>>

\* the response sets a session cookie that verifies for username at time at
MintsFor(env, resp, username, at) ==
    /\ resp.setSession # <<>>
    /\ resp.setSession[1].maxAge > 0
    /\ verifySessionValue(resp.setSession[1].value, env.secret, at) # <<>>
    /\ verifySessionValue(resp.setSession[1].value, env.secret, at)[1].username = username

\* C15: on a configured server a request to /logout without the marker is
\* answered 401, deletes the session cookie and sets the marker, whatever
\* cookie or Basic credentials it carries; with the marker it is answered
\* 401 without any cookie being set unless its Basic credentials are valid,
\* and then it is redirected to the next path (or "/") with a fresh session
\* cookie for that user and the marker deleted.
C15_TwoPhaseLogout ==
    (Answered /\ Configured(authEnv[1]) /\ proxyLast[1].request.path = "/logout") =>
        LET env  == authEnv[1]
            req  == proxyLast[1].request
            resp == proxyLast[1].response
            at   == proxyLast[1].at
        IN  /\ ~CarriesMarker(req) =>
                /\ resp.status = 401
                /\ resp.setSession = SetCookie(<<>>, 0)
                /\ resp.setLogout # <<>>
                /\ resp.setLogout[1].value = <<49>>
                /\ resp.setLogout[1].maxAge > 0
                /\ resp.location = <<>> /\ resp.user = <<>>
            /\ (CarriesMarker(req) /\ ~BasicValid(env, req)) =>
                /\ resp.status = 401
                /\ resp.setSession = <<>> /\ resp.setLogout = <<>>
                /\ resp.location = <<>> /\ resp.user = <<>>
            /\ (CarriesMarker(req) /\ BasicValid(env, req)) =>
                /\ resp.status = RedirectStatus
                /\ resp.location = (IF req.next # <<>> THEN req.next ELSE <<"/">>)
                /\ MintsFor(env, resp, req.who[1].username, at)
                /\ resp.setLogout = SetCookie(<<>>, 0)

\* phase 1 answered a request that carried a valid cookie and valid Basic
\* credentials, and later phase 2 redirected to the requested path
C15_Witness ==
    /\ Answered /\ Configured(authEnv[1])
    /\ proxyLast[1].request.path = "/logout"
    /\ CarriesMarker(proxyLast[1].request)
    /\ BasicValid(authEnv[1], proxyLast[1].request)
    /\ proxyLast[1].request.next = <<"/chat">>
    /\ proxyLast[1].response.status = RedirectStatus
    /\ cookies.logout = <<>> /\ cookies.session # <<>>

\* phase 1 with a valid cookie and valid Basic credentials
C15_WitnessPhase1 ==
    /\ Answered /\ Configured(authEnv[1])
    /\ proxyLast[1].request.path = "/logout"
    /\ ~CarriesMarker(proxyLast[1].request)
    /\ BasicValid(authEnv[1], proxyLast[1].request)
    /\ CookieValid(authEnv[1], proxyLast[1].request, proxyLast[1].at)
    /\ proxyLast[1].response.status = 401

Passed(resp) == resp.kind = "next" /\ resp.status = 200

\* C16: on a configured server a request to a path other than /logout is
\* passed through exactly when its session cookie verifies under the secret
\* or its Basic credentials are a pair of the deployment, and is otherwise
\* answered 401 with the Basic challenge; the response sets a session cookie
\* exactly when the request had no verifying cookie and was authenticated by
\* its Basic credentials, and that cookie verifies for the typed user.
C16_NormalPath ==
    (Answered /\ Configured(authEnv[1]) /\ proxyLast[1].request.path # "/logout") =>
        LET env  == authEnv[1]
            req  == proxyLast[1].request
            resp == proxyLast[1].response
            at   == proxyLast[1].at
            byCookie == CookieValid(env, req, at)
            byBasic  == BasicValid(env, req)
        IN  /\ Passed(resp) <=> (byCookie \/ byBasic)
            /\ ~Passed(resp) =>
                  /\ resp.status = 401 /\ resp.challenge
                  /\ resp.setSession = <<>> /\ resp.user = <<>>
            /\ resp.setSession # <<>> <=> (~byCookie /\ byBasic)
            /\ (~byCookie /\ byBasic) =>
                  /\ MintsFor(env, resp, req.who[1].username, at)
                  /\ resp.user = <<req.who[1].username>>
            /\ byCookie =>
                  resp.user = <<verifySessionValue(req.sessionCookie, env.secret, at)[1].username>>
            /\ resp.location = <<>>

\* the browser's own cookie has expired and the request is passed on its
\* Basic credentials, with a new cookie
C16_Witness ==
    /\ Answered /\ Configured(authEnv[1])
    /\ proxyLast[1].request.path # "/logout"
    /\ proxyLast[1].request.sessionCookie # <<>>
    /\ proxyLast[1].request.sessionCookie # ForgedCookie
    /\ ~CookieValid(authEnv[1], proxyLast[1].request, proxyLast[1].at)
    /\ BasicValid(authEnv[1], proxyLast[1].request)
    /\ Passed(proxyLast[1].response)
    /\ proxyLast[1].response.setSession # <<>>

\* a verifying cookie passes with wrong Basic credentials and gets no cookie
C16_WitnessCookie ==
    /\ Answered /\ Configured(authEnv[1])
    /\ proxyLast[1].request.path # "/logout"
    /\ CookieValid(authEnv[1], proxyLast[1].request, proxyLast[1].at)
    /\ proxyLast[1].request.who # <<>>
    /\ ~BasicValid(authEnv[1], proxyLast[1].request)
    /\ Passed(proxyLast[1].response)
    /\ proxyLast[1].response.setSession = <<>>

\* C17: a server without signing secret, or whose credential list has no
\* pair with a username and a password, answers every request 500, sets no
\* cookie, sends no challenge, redirects nowhere and passes nothing through.
C17_MissingConfigurationIs500 ==
    (Answered /\ ~Configured(authEnv[1])) =>
        LET resp == proxyLast[1].response
        IN  /\ resp.status = 500
            /\ resp.kind = "missing"
            /\ ~resp.challenge
            /\ resp.setSession = <<>> /\ resp.setLogout = <<>>
            /\ resp.location = <<>> /\ resp.user = <<>>
            /\ cookies = [session |-> <<>>, logout |-> <<>>]

\* the secret is set, the only configured user has no password, and the
\* request has a cookie that verifies under the secret and names that user
C17_Witness ==
    /\ Answered /\ authEnv[1].secret # <<>> /\ authEnv[1].creds # <<>>
    /\ ~Configured(authEnv[1])
    /\ CookieValid(authEnv[1], proxyLast[1].request, proxyLast[1].at)
    /\ proxyLast[1].request.who # <<>>
    /\ proxyLast[1].response.status = 500

\* the secret is missing and the request goes to /logout with Basic
\* credentials of a configured user
C17_WitnessNoSecret ==
    /\ Answered /\ authEnv[1].secret = <<>>
    /\ proxyLast[1].request.path = "/logout"
    /\ proxyLast[1].request.who # <<>>
    /\ proxyLast[1].request.who[1] \in UsablePairs(authEnv[1])
    /\ proxyLast[1].response.status = 500

\* ------------------------------------------------------------------------
\* The chat gateway: the last exchange
\* ------------------------------------------------------------------------
Exchanged == authEnv # <<>> /\ chatLast # <<>>

\* the model list of the registry's provider
RegistryModelsOf(key) == providers(authEnv[1])[key].models

\* the provider named by the request resolves: it is in the registry and the
\* environment or the request has a key for it
Resolves(env, req) ==
    /\ req.provider # <<>>
    /\ req.provider[1] \in DOMAIN providers(env)
    /\ \/ (env.BURNCLOUD_API_KEY # <<>> /\ env.BURNCLOUD_API_KEY[1] # "")
       \/ (req.providerConfig.apiKey # <<>> /\ req.providerConfig.apiKey[1] # "")

\* C18: a request without override model list whose provider resolves and
\* whose model is not in that provider's (non-empty) model list is answered
\* with the error body and status 400, and no upstream call is made, whatever
\* its other fields are.
C18_DisallowedModelIs400 ==
    (/\ Exchanged
     /\ chatLast[1].request.parsed
     /\ chatLast[1].request.providerConfig.models = <<>>
     /\ Resolves(authEnv[1], chatLast[1].request)
     /\ Len(RegistryModelsOf(chatLast[1].request.provider[1])) > 0
     /\ \A k \in 1..Len(RegistryModelsOf(chatLast[1].request.provider[1])) :
           chatLast[1].request.model # <<RegistryModelsOf(chatLast[1].request.provider[1])[k]>>)
    => /\ chatLast[1].call = <<>>
       /\ chatLast[1].upstream = <<>>
       /\ chatLast[1].response # <<>>
       /\ chatLast[1].response[1].status = 400
       /\ chatLast[1].response[1].kind = ErrorKind

\* a request that is well formed in every other field, with a base URL and a
\* key of its own, is rejected for its model alone
C18_Witness ==
    /\ Exchanged
    /\ isChatMessageArray(chatLast[1].request.messages)
    /\ isAttachmentArray(chatLast[1].request.attachments)
    /\ chatLast[1].request.model = <<"my-model">>
    /\ chatLast[1].request.provider = <<"burncloud">>
    /\ chatLast[1].request.providerConfig.models = <<>>
    /\ chatLast[1].request.providerConfig.apiKey = <<"sk-own">>
    /\ chatLast[1].request.providerConfig.baseUrl # <<>>
    /\ chatLast[1].response = <<errorResponse(MsgModelNotAllowed, 400)>>
    /\ chatLast[1].call = <<>>

\* the last exchange reached the upstream, which answered up
Answering(up) == Exchanged /\ chatLast[1].upstream = <<up>>

C19_WitnessVerbatim ==
    /\ Answering(Upstream(500, TRUE, "detail", TRUE))
    /\ chatLast[1].response = <<errorResponse("detail", 500)>>

\* C20: every answer of the gateway that is not the relayed stream is the
\* error body with a status from 400 to 599.
C20_FailuresAre4xx5xx ==
    (Exchanged /\ chatLast[1].response # <<>> /\ chatLast[1].response[1].kind # StreamKind) =>
        /\ chatLast[1].response[1].kind = ErrorKind
        /\ chatLast[1].response[1].message # <<>>
        /\ chatLast[1].response[1].status >= 400
        /\ chatLast[1].response[1].status <= 599

\* ------------------------------------------------------------------------
\* The relay
\* ------------------------------------------------------------------------
Relaying == relay # <<>>

\* the chunks of the upstream body read so far
ChunksRead(r) == [k \in 1..r.read |-> Chunk(r.chunks[k])]

\* C21: while the client has not cancelled, the downstream sequence is the
\* upstream chunks read so far, unchanged and in order, each enqueued before
\* the next read; when the upstream ends it is all of them and the stream is
\* closed; when a read fails after k chunks it is those k chunks followed by
\* one error event, and the stream is closed, not errored.
C21_RelayInOrder ==
    (Relaying /\ ~relay[1].cancelled) =>
        LET r == relay[1]
        IN  /\ r.pc = "reading" =>
                 /\ r.downstream = ChunksRead(r)
                 /\ r.stream = "readable"
            /\ (r.pc # "reading" /\ r.ending = "done") =>
                 /\ r.downstream = [k \in 1..Len(r.chunks) |-> Chunk(r.chunks[k])]
                 /\ r.stream = "closed" /\ r.pc = "returned"
            /\ (r.pc # "reading" /\ r.ending = "rejects") =>
                 /\ Len(r.downstream) = Len(r.chunks) + 1
                 /\ SubSeq(r.downstream, 1, Len(r.chunks))
                       = [k \in 1..Len(r.chunks) |-> Chunk(r.chunks[k])]
                 /\ r.downstream[Len(r.downstream)].kind = "error-event"
                 /\ r.stream = "closed" /\ r.pc = "returned"

\* a read failed after two chunks
C21_Witness ==
    /\ Relaying /\ ~relay[1].cancelled
    /\ relay[1].chunks = <<1, 2>> /\ relay[1].ending = "rejects"
    /\ relay[1].pc = "returned"
    /\ Len(relay[1].downstream) = 3

\* C22: when the relay has left its loop, the reader has been released once,
\* the downstream stream has been closed once, and start has not thrown.
C22_ReleasedOnEveryExit ==
    (Relaying /\ relay[1].pc # "reading") =>
        /\ ~relay[1].locked
        /\ relay[1].releases = 1
        /\ relay[1].stream = "closed"
        /\ relay[1].closes + (IF relay[1].cancelled THEN 1 ELSE 0) = 1
        /\ relay[1].pc = "returned"

\* without cancellation the reader is released and the stream closed once
C22_ReleasedUnlessCancelled ==
    (Relaying /\ relay[1].pc # "reading" /\ ~relay[1].cancelled) =>
        /\ ~relay[1].locked
        /\ relay[1].releases = 1
        /\ relay[1].closes = 1
        /\ relay[1].pc = "returned"

\* ------------------------------------------------------------------------
\* Upload intake
\* ------------------------------------------------------------------------
Uploaded == uploadLast # <<>>

\* the entry is a File whose type starts with image/ or video/
MediaType(entry) ==
    /\ Len(entry.type) >= 6
    /\ SubSeq(entry.type, 1, 6) \in { <<105, 109, 97, 103, 101, 47>>,
                                       <<118, 105, 100, 101, 111, 47>> }

\* C23: a File entry of type image/... or video/... with at most 5,242,880
\* bytes is accepted; a missing file, then a type with another prefix, then
\* a larger size are rejected with status 400, each with its own message,
\* the earlier test deciding when several apply.
C23_UploadIntake ==
    Uploaded =>
        LET entry == uploadLast[1].entry
            resp  == uploadLast[1].response
            isFile == entry # <<>> /\ entry[1].isFile
        IN  /\ ~isFile => (resp.status = 400 /\ resp.message = <<MsgNoFile>>)
            /\ (isFile /\ ~MediaType(entry[1])) =>
                  (resp.status = 400 /\ resp.message = <<MsgBadType>>)
            /\ (isFile /\ MediaType(entry[1]) /\ entry[1].size >= 5242881) =>
                  (resp.status = 400 /\ resp.message = <<MsgTooLarge>>)
            /\ (isFile /\ MediaType(entry[1]) /\ entry[1].size <= 5242880) =>
                  /\ resp.status = 200
                  /\ resp.file # <<>>
                  /\ resp.file[1].size = entry[1].size
                  /\ resp.file[1].mime = entry[1].type
            /\ Cardinality({MsgNoFile, MsgBadType, MsgTooLarge}) = 3

\* a video of exactly 5,242,880 bytes is accepted
C23_Witness ==
    /\ Uploaded
    /\ uploadLast[1].entry # <<>>
    /\ uploadLast[1].entry[1].isFile
    /\ uploadLast[1].entry[1].size = 5242880
    /\ uploadLast[1].entry[1].type = <<118, 105, 100, 101, 111, 47, 109, 112, 52>>
    /\ uploadLast[1].response.status = 200

\* a text file of 5,242,881 bytes is rejected for its type
C23_WitnessOrder ==
    /\ Uploaded
    /\ uploadLast[1].entry # <<>>
    /\ uploadLast[1].entry[1].isFile
    /\ uploadLast[1].entry[1].size = 5242881
    /\ ~MediaType(uploadLast[1].entry[1])
    /\ uploadLast[1].response.message = <<MsgBadType>>

\* ------------------------------------------------------------------------
\* Uploads before a send
\* ------------------------------------------------------------------------
\* C24: the pending files are uploaded one per step; a send reaches the chat
\* request only with all of them uploaded; when an upload fails the send ends
\* there, with the store, the message identifiers and the retained payload as
\* they were, no chat request built, and no step of that send afterwards.
C24_UploadFailureAbandonsSend ==
    [][\A p \in Pipes :
          /\ (pipes[p].pc = "upload" /\ pipes'[p].pc = "upload" /\ pipes'[p] # pipes[p]) =>
                /\ pipes'[p].uploaded = pipes[p].uploaded + 1
                /\ pipes'[p].filesLeft = pipes[p].filesLeft - 1
          /\ (pipes'[p].kind = "send" /\ pipes[p].pc # "fetch" /\ pipes'[p].pc = "fetch") =>
                /\ pipes'[p].uploaded = pipes'[p].files
                /\ pipes'[p].payload # <<>>
                /\ pipes'[p].payload[1].attachments = pipes'[p].files
          /\ (pipes[p].pc = "upload" /\ pipes'[p].pc = "finished") =>
                /\ conversations' = conversations
                /\ messages' = messages
                /\ currentId' = currentId
                /\ nextMsgId' = nextMsgId
                /\ lastPayloadRef' = lastPayloadRef
                /\ controllerRef' = controllerRef
                /\ pipes'[p].payload = <<>>
                /\ pipes'[p].uploaded < pipes'[p].files
          /\ (pipes[p].pc = "finished" /\ pipes[p].result = "null") =>
                pipes'[p] = pipes[p]
    ]_vars

\* the second of two files failed after the first was uploaded, and nothing
\* was sent
C24_Witness ==
    \E p \in Pipes :
        /\ pipes[p].pc = "finished" /\ pipes[p].result = "null"
        /\ pipes[p].files = 2 /\ pipes[p].uploaded = 1
        /\ lastPayloadRef = <<>>
        /\ nextMsgId = 1

\* ------------------------------------------------------------------------
\* The store: message lists
\* ------------------------------------------------------------------------
\* the identifiers of a message list, in order
IdsOf(list) == [k \in 1..Len(list) |-> list[k].id]

\* the conversations of a list, as a set of identifiers
IdSet(convs) == { convs[k].id : k \in 1..Len(convs) }

\* C25: in every step, for every conversation that is in the store before
\* and after it, the identifiers of its messages before the step are an
\* initial segment of those after it, and every message still belongs to the
\* conversation whose list holds it.
C25_MessagesAppendOnly ==
    [][\A id \in IdSet(conversations) \cap IdSet(conversations') :
          /\ id \in DOMAIN messages => id \in DOMAIN messages'
          /\ (id \in DOMAIN messages /\ id \in DOMAIN messages') =>
                /\ IsPrefix(IdsOf(messages[id]), IdsOf(messages'[id]))
                /\ \A k \in 1..Len(messages'[id]) : messages'[id][k].conversationId = id
    ]_vars

\* a conversation holds two messages in the order of their creation, and
\* another conversation has been selected, renamed or created meanwhile
C25_Witness ==
    \E id \in DOMAIN messages :
        /\ id \in IdSet(conversations)
        /\ IdsOf(messages[id]) = <<1, 2>>
        /\ Len(conversations) = 2
        /\ conversations[1].id # id

\* the patches a caller passes to updateMessage
SomePatches == { PatchStatus("done"), PatchStatus("error"), PatchAppend(<<97>>) }

\* the store after updateMessage differs from st in nothing but the message
\* messageId of conversation conversationId
OnlyThatMessage(st, r, conversationId, messageId) ==
    /\ r.conversations = st.conversations
    /\ r.currentId = st.currentId
    /\ DOMAIN r.messages = DOMAIN st.messages
    /\ \A id \in DOMAIN st.messages :
          /\ Len(r.messages[id]) = Len(st.messages[id])
          /\ \A k \in 1..Len(st.messages[id]) :
                (id # conversationId \/ st.messages[id][k].id # messageId) =>
                    r.messages[id][k] = st.messages[id][k]

\* C28: in every reachable store state, updateMessage with any conversation
\* identifier, message identifier and patch changes nothing but the message
\* with that identifier in that conversation, and leaves the state as it is
\* when that conversation has no such message or is not in the store.
C28_UpdateTouchesOneMessage ==
    \A id \in AnyConvIds, messageId \in 1..MaxMsgs, patch \in SomePatches :
        LET r == updateMessage(St, id, messageId, patch)
        IN  /\ OnlyThatMessage(St, r, id, messageId)
            /\ (\A k \in 1..MsgCount(St, id) : MsgList(St, id)[k].id # messageId) => r = St

\* the same for the conversations that are in the store
C28_UpdateInKnownConversation ==
    \A id \in IdSet(conversations) \cap DOMAIN messages, messageId \in 1..MaxMsgs,
       patch \in SomePatches :
        LET r == updateMessage(St, id, messageId, patch)
        IN  /\ OnlyThatMessage(St, r, id, messageId)
            /\ (\A k \in 1..MsgCount(St, id) : MsgList(St, id)[k].id # messageId) => r = St

\* ------------------------------------------------------------------------
\* Persistence: what storage holds and what a cold start makes of it
\* ------------------------------------------------------------------------
\* every call of a store operation with the identifiers of the run
AllCalls ==
    { Call(op, id, messageId) :
        op \in Operations, id \in AnyConvIds \cup {nextConvId}, messageId \in 1..MaxMsgs }

\* C26: in every reachable state and for every store operation and every
\* cold start, the conversations, messages and current id after it are the
\* same when a write to the state slot or to the current-id slot throws as
\* when both writes succeed, and they are what the operation computes.
C26_WriteFailureInvisible ==
    /\ \A call \in AllCalls, okState \in BOOLEAN, okCurrent \in BOOLEAN :
          LET r == Operate(St, storage, call, nextConvId, nextMsgId, okState, okCurrent)
          IN  /\ r.store = Operate(St, storage, call, nextConvId, nextMsgId, TRUE, TRUE).store
              /\ r.store = Apply(St, call, nextConvId, nextMsgId)
    /\ \A okState \in BOOLEAN, okCurrent \in BOOLEAN :
          ColdStart(storage, nextConvId, okState, okCurrent).store
              = ColdStart(storage, nextConvId, TRUE, TRUE).store

\* a message was added while the write of the state threw: the store holds
\* it, the state slot still holds the conversation without it
C26_Witness ==
    /\ storage.failures = 1
    /\ storage.stale
    /\ MsgCount(St, 1) = 1
    /\ MsgList(loadState(storage), 1) = <<>>
    /\ 1 \in IdSet(conversations)

\* the conversations array of the text in the state slot, <<>> when the slot
\* is empty, the text does not parse or the object has no such property
PersistedConversations ==
    IF storage.state = <<>> THEN <<>>
    ELSE IF storage.state[1].kind # "json" THEN <<>>
    ELSE IF storage.state[1].conversations = <<>> THEN <<>>
    ELSE storage.state[1].conversations[1]

\* the list the text in the state slot gives for a conversation
PersistedList(id) ==
    IF storage.state = <<>> THEN <<>>
    ELSE IF storage.state[1].kind # "json" \/ storage.state[1].messages = <<>> THEN <<>>
    ELSE IF \E e \in storage.state[1].messages[1] : e[1] = id
         THEN (CHOOSE e \in storage.state[1].messages[1] : e[1] = id)[2]
         ELSE <<>>

PersistedKeys ==
    IF storage.state = <<>> THEN {}
    ELSE IF storage.state[1].kind # "json" \/ storage.state[1].messages = <<>> THEN {}
    ELSE { e[1] : e \in storage.state[1].messages[1] }

\* the store a cold start leaves holds exactly what the state slot held
LoadedAsIs(store) ==
    /\ store.conversations = PersistedConversations
    /\ DOMAIN store.messages = PersistedKeys
    /\ \A id \in PersistedKeys : store.messages[id] = PersistedList(id)

C27_WitnessCreated ==
    /\ nextConvId = 3
    /\ nextMsgId = 2
    /\ IdSet(conversations) = {2}
    /\ DOMAIN messages = {2}
    /\ ~storage.stale
    /\ IdSet(PersistedConversations) = {2}
    /\ storage.current = <<2>>

\* two conversations with a message each were saved, the store was changed
\* further, and every write succeeded: a reload brings back this store
C27_WitnessRoundTrip ==
    /\ ~storage.stale
    /\ storage.failures = 0
    /\ Len(conversations) = 3
    /\ nextMsgId = 3
    /\ conversations[1].id = 1

\* C29: in every reachable state, deleteConversation(id) for a conversation
\* of the store other than the current one leaves the current conversation
\* id as it was.
C29_DeleteKeepsCurrent ==
    \A id \in IdSet(conversations) :
        id # currentConversationId(St) =>
            currentConversationId(deleteConversation(St, id)) = currentConversationId(St)

\* C30: in every store state reachable after a cold start with nothing
\* persisted, setCurrent(id) for a conversation of the store makes it current
\* and puts it first with the other conversations behind it in the order
\* they had, setCurrent(id) for any other id changes nothing, and the
\* current conversation is the first of the list.
C30_CurrentIsFirst ==
    /\ \A id \in AnyConvIds \cup {nextConvId} :
          LET r == setCurrent(St, id)
          IN  IF id \in IdSet(conversations)
              THEN /\ r.currentId = id
                   /\ r.conversations[1].id = id
                   /\ r.conversations[1] \in {conversations[k] : k \in 1..Len(conversations)}
                   /\ Tail(r.conversations) = SelectSeq(conversations, LAMBDA c : c.id # id)
                   /\ r.messages = messages
              ELSE r = St
    /\ Len(conversations) > 0 => conversations[1].id = currentConversationId(St)

\* three conversations were created and the oldest was selected: it is
\* first and current, the other two follow in the order they had
C30_Witness ==
    /\ Len(conversations) = 3
    /\ conversations[1].id = 1
    /\ conversations[2].id = 3
    /\ conversations[3].id = 2
    /\ currentConversationId(St) = 1

\* ------------------------------------------------------------------------
\* The page: how a send ends
\* ------------------------------------------------------------------------
\* the messages with identifier messageId in the list of a conversation
MessagesWith(conversationId, messageId) ==
    { MsgList(St, conversationId)[k] :
        k \in { j \in 1..MsgCount(St, conversationId) :
                  MsgList(St, conversationId)[j].id = messageId } }

\* invocation p has returned with the sending flag down and no controller
\* kept, and its assistant message, if its conversation is still in the
\* store, is done or error
Settled(p) ==
    /\ pipes[p].pc = "finished"
    /\ ~isSending
    /\ controllerRef = <<>>
    /\ pipes[p].conv \in IdSet(conversations) =>
          /\ MessagesWith(pipes[p].conv, pipes[p].aid) # {}
          /\ \A m \in MessagesWith(pipes[p].conv, pipes[p].aid) :
                m.status \in {"done", "error"}

\* C31: when every pending request of an invocation settles in the end,
\* each handleSend or retryLast that has appended its streaming assistant
\* message leads to a state in which that invocation has returned, the
\* message (if its conversation was not deleted) has status done or error,
\* the sending flag is false and no controller is kept.
C31_SendTerminates ==
    \A p \in Pipes : AtNetwork(p) ~> Settled(p)

\* a send was stopped and has returned: its message is done, nothing is live
C31_Witness ==
    \E p \in Pipes :
        /\ Settled(p)
        /\ pipes[p].aborted
        /\ pipes[p].conv \in IdSet(conversations)

\* a retry has returned after its stream ended
C31_WitnessRetry ==
    \E p \in Pipes :
        /\ Settled(p)
        /\ pipes[p].kind = "retry"
        /\ pipes[p].result = "ok"
        /\ pipes[p].conv \in IdSet(conversations)

\* ------------------------------------------------------------------------
\* The gateway: where the provider secret goes
\* ------------------------------------------------------------------------
\* the handler made an outbound call for the last request
Called == authEnv # <<>> /\ chatLast # <<>> /\ chatLast[1].call # <<>>

\* the secret of the registry entry under process.env = env, <<>> when unset
\* or empty
RegistrySecret(env) ==
    IF env.BURNCLOUD_API_KEY # <<>> /\ env.BURNCLOUD_API_KEY[1] # ""
    THEN env.BURNCLOUD_API_KEY ELSE <<>>

\* the base URL of the registry entry: BURNCLOUD_BASE_URL, else the default
RegistryOrigin(env) ==
    IF env.BURNCLOUD_BASE_URL # <<>> THEN env.BURNCLOUD_BASE_URL[1].origin
    ELSE "https://ai.burncloud.com"

\* the override secret of a request, <<>> when it gives none
OverrideSecret(req) ==
    IF req.providerConfig.apiKey # <<>> /\ req.providerConfig.apiKey[1] # ""
    THEN req.providerConfig.apiKey ELSE <<>>

\* the token of the Authorization header of a call, <<>> without the header
SentToken(call) ==
    IF call.authorization = <<>> THEN <<>> ELSE <<call.authorization[1].token>>

\* C32: whenever the outbound call carries the registry secret, its URL is
\* the registry base URL with the registry path; and whenever the request
\* gives an override secret, the call carries that secret.
C32_SecretOnlyToRegistry ==
    Called =>
        LET call == chatLast[1].call[1]
            env == authEnv[1]
            req == chatLast[1].request
        IN  /\ (RegistrySecret(env) # <<>> /\ SentToken(call) = RegistrySecret(env)) =>
                  call.url = Url(RegistryOrigin(env), "/v1/chat/completions")
            /\ OverrideSecret(req) # <<>> => SentToken(call) = OverrideSecret(req)

\* the part of C32 about a request that gives an override secret: the call
\* carries the override and not the registry secret
C32_OverrideSecretWins ==
    (Called /\ OverrideSecret(chatLast[1].request) # <<>>) =>
        /\ SentToken(chatLast[1].call[1]) = OverrideSecret(chatLast[1].request)
        /\ SentToken(chatLast[1].call[1]) # RegistrySecret(authEnv[1])

\* ------------------------------------------------------------------------
\* The proxy: the user header and the logout marker
\* ------------------------------------------------------------------------
\* resolveBasicUserFromHeaders(headers) of the downstream handler, on the
\* user header and the session cookie of the request it receives: <<>> is null
resolveBasicUserFromHeaders(env, userHeader, sessionCookie, nowMs) ==
    IF userHeader # <<>> /\ userHeader[1] # <<>> THEN userHeader
    ELSE IF env.secret = <<>> THEN <<>>
    ELSE IF sessionCookie = <<>> THEN <<>>
    ELSE LET payload == verifySessionValue(sessionCookie, env.secret, nowMs)
         IN  IF payload = <<>> THEN <<>> ELSE <<payload[1].username>>

\* the user the last request was authenticated as: the one of its verified
\* session cookie, else the one of the credentials typed
AuthenticatedAs(env, req, at) ==
    IF CookieValid(env, req, at)
    THEN verifySessionValue(req.sessionCookie, env.secret, at)[1].username
    ELSE req.who[1].username

\* C37: whenever the proxy passes a request through, the user header of the
\* request handed on is the username just authenticated, whatever value the
\* client sent for that header, and the downstream handler resolves that
\* username.
C37_UserHeaderOverwritten ==
    (Answered /\ Passed(proxyLast[1].response)) =>
        LET req == proxyLast[1].request
            resp == proxyLast[1].response
            env == authEnv[1]
        IN  /\ CookieValid(env, req, proxyLast[1].at) \/ BasicValid(env, req)
            /\ resp.user = <<AuthenticatedAs(env, req, proxyLast[1].at)>>
            /\ resolveBasicUserFromHeaders(env, resp.user, req.sessionCookie, proxyLast[1].at)
                  = <<AuthenticatedAs(env, req, proxyLast[1].at)>>

\* user a logged in with credentials while the request claimed to be from b
C37_Witness ==
    /\ Answered /\ Passed(proxyLast[1].response)
    /\ proxyLast[1].request.userHeader = << <<98>> >>
    /\ BasicValid(authEnv[1], proxyLast[1].request)
    /\ proxyLast[1].request.who[1].username = <<97>>
    /\ proxyLast[1].response.user = << <<97>> >>

\* user a came with a session cookie while the request claimed to be from b
C37_WitnessCookie ==
    /\ Answered /\ Passed(proxyLast[1].response)
    /\ proxyLast[1].request.userHeader = << <<98>> >>
    /\ proxyLast[1].request.who = <<>>
    /\ proxyLast[1].response.user = << <<97>> >>

\* the browser holds a session cookie that verifies now
HoldsSession ==
    /\ authEnv # <<>> /\ authEnv[1].secret # <<>>
    /\ cookies.session # <<>>
    /\ verifySessionValue(cookies.session, authEnv[1].secret, now) # <<>>

\* C38: the browser never holds a session cookie that verifies together with
\* the logout marker.
C38_NoSessionWithMarker ==
    ~(HoldsSession /\ cookies.logout = <<49>>)

\* the part of C38 about the logout path: a response that mints a session
\* there clears the marker
C38_LogoutMintClearsMarker ==
    (Answered /\ proxyLast[1].request.path = "/logout"
     /\ proxyLast[1].response.setSession # <<>>
     /\ proxyLast[1].response.setSession[1].maxAge > 0) =>
        /\ proxyLast[1].response.setLogout # <<>>
        /\ proxyLast[1].response.setLogout[1].maxAge = 0

\* ------------------------------------------------------------------------
\* The page: what a send in flight touches
\* ------------------------------------------------------------------------
\* C33: in every reachable state of the page the keys of the message map are
\* the identifiers of the conversations in the store.
C33_MessageKeysAreConversations ==
    DOMAIN messages = IdSet(conversations)

\* invocation p, suspended on the network, moves in this step
Advances(p) == AtNetwork(p) /\ pipes'[p] # pipes[p]

\* the strings the delta callback of p was called with in this step
NewDeltas(p) ==
    SubSeq(pipes'[p].delivered, Len(pipes[p].delivered) + 1, Len(pipes'[p].delivered))

\* C34: in every step in which an invocation suspended on the network moves
\* (a chunk is read, a request fails, the stream ends, Stop), every message
\* other than its assistant message is unchanged and no message appears; its
\* assistant message, when it is in the store, stays in the conversation
\* where the invocation created it, keeps identifier and role, has the
\* increments of this step appended to its content in order, and is marked
\* done exactly when the invocation returns.
C34_SendTouchesOwnMessage ==
    [][ \A p \in Pipes : Advances(p) =>
          /\ \A c \in DOMAIN messages' :
                IF c \in DOMAIN messages
                THEN /\ Len(messages'[c]) = Len(messages[c])
                     /\ \A k \in 1..Len(messages[c]) :
                           IF messages[c][k].id # pipes[p].aid
                           THEN messages'[c][k] = messages[c][k]
                           ELSE /\ c = pipes[p].conv
                                /\ messages'[c][k].id = pipes[p].aid
                                /\ messages'[c][k].conversationId = c
                                /\ messages'[c][k].role = "assistant"
                                /\ messages'[c][k].content
                                      = messages[c][k].content \o Concat(NewDeltas(p))
                                /\ messages'[c][k].status =
                                      IF pipes'[p].pc = "finished" THEN "done"
                                      ELSE messages[c][k].status
                ELSE messages'[c] = <<>>
          /\ \A c \in DOMAIN messages : c \in DOMAIN messages'
      ]_vars

\* a send has returned with its increments in its own message while another
\* conversation is the current one
C34_Witness ==
    \E p \in Pipes :
        /\ pipes[p].pc = "finished" /\ pipes[p].result = "ok"
        /\ pipes[p].delivered # <<>>
        /\ pipes[p].conv \in IdSet(conversations)
        /\ currentConversationId(St) # pipes[p].conv
        /\ \E m \in MessagesWith(pipes[p].conv, pipes[p].aid) :
              m.content = Concat(pipes[p].delivered) /\ m.status = "done"

\* the handleSend invocations before p that built a payload
SendsBefore(p) ==
    { q \in Pipes : q < p /\ pipes[q].kind = "send" /\ pipes[q].aid # NoId }

\* the conversation whose history the payload retained at the time of
\* invocation p was built from: that of the last handleSend before p
PayloadConversation(p) ==
    pipes[CHOOSE q \in SendsBefore(p) : \A r \in SendsBefore(p) : r <= q].conv

\* C35: the assistant message of every retryLast is appended to the
\* conversation whose history the retained payload was built from.
C35_RetryTargetsOrigin ==
    \A p \in Pipes :
        (pipes[p].kind = "retry" /\ SendsBefore(p) # {}) =>
            pipes[p].conv = PayloadConversation(p)

\* the same when the current conversation at the retry is still the one of
\* the send
C35_RetrySameConversation ==
    [][ \A p \in Pipes :
          (pipes[p].pc = "idle" /\ pipes'[p].kind = "retry" /\ SendsBefore(p) # {}
           /\ currentConversationId(St) = PayloadConversation(p)) =>
              pipes'[p].conv = PayloadConversation(p) ]_vars

\* ------------------------------------------------------------------------
\* A failure of the upstream in the middle of a relayed answer
\* ------------------------------------------------------------------------
\* the relay put its error event on the body
RelayFailed ==
    /\ relay # <<>>
    /\ \E k \in 1..Len(relay[1].downstream) : relay[1].downstream[k].kind = "error-event"

\* C36: when the relay reported a failure of the upstream, the assistant
\* message of the send that read the body holds the text of the upstream's
\* increments and nothing else, and does not have status done.
C36_RelayFailureNotAnswer ==
    \A p \in Pipes :
        (RelayFailed /\ pipes[p].pc = "finished") =>
            \A m \in MessagesWith(pipes[p].conv, pipes[p].aid) :
                /\ m.content = Concat(Expected(pipes[p].stream))
                /\ m.status # "done"

\* without a failure the message holds the increments and is done
C36_RelayedAnswerDelivered ==
    \A p \in Pipes :
        (relay # <<>> /\ ~RelayFailed /\ pipes[p].pc = "finished") =>
            \A m \in MessagesWith(pipes[p].conv, pipes[p].aid) :
                /\ m.content = Concat(Expected(pipes[p].stream))
                /\ m.status = "done"

====
